---------------------------- MODULE Spec2Model ----------------------------
(***************************************************************************)
(* Model of the gift-eligibility and pricing engine of the order form      *)
(* (DynamicForm and its helpers).                                          *)
(*                                                                         *)
(* Text is modelled as a sequence of one-character tokens.  Three tokens   *)
(* stand for characters outside ASCII and one for a literal prefix:        *)
(*   "MAN"            the reached-threshold marker (U+6EFF)                *)
(*   "IDEO_COMMA"     the ideographic comma (U+3001)                       *)
(*   "FW_COMMA"       the full-width comma (U+FF0C)                        *)
(*   "~gift_section~" the literal title prefix of a gift section           *)
(* A form value is a tagged record: [t |-> "undef"], [t |-> "str", v],     *)
(* [t |-> "arr", v] (a list of strings), [t |-> "bool", v], [t |-> "num"]. *)
(* An absent title or label (undefined) is the empty text: every use in    *)
(* the source treats the two alike (!title, title?.startsWith, title||""). *)
(***************************************************************************)
EXTENDS Integers, Sequences, FiniteSets, TLC

\* An optional result (number | null, RegExpMatchArray | null) is a list of at
\* most one element: null is the empty list, a present value x is <<x>>.
null == <<>>

Some(x) == <<x>>

Val(o) == o[1]

Digits == {"0", "1", "2", "3", "4", "5", "6", "7", "8", "9"}

DigitVal(c) ==
    CASE c = "0" -> 0 [] c = "1" -> 1 [] c = "2" -> 2 [] c = "3" -> 3
      [] c = "4" -> 4 [] c = "5" -> 5 [] c = "6" -> 6 [] c = "7" -> 7
      [] c = "8" -> 8 [] c = "9" -> 9

IsDigit(s, i) == i >= 1 /\ i <= Len(s) /\ s[i] \in Digits

IsSpace(s, i) == i >= 1 /\ i <= Len(s) /\ s[i] = " "

\* index just after the longest run of digits that starts at i (greedy \d+)
RECURSIVE DigitsEnd(_, _)
DigitsEnd(s, i) == IF IsDigit(s, i) THEN DigitsEnd(s, i + 1) ELSE i

\* index just after the longest run of white space that starts at i (\s*)
RECURSIVE SpacesEnd(_, _)
SpacesEnd(s, i) == IF IsSpace(s, i) THEN SpacesEnd(s, i + 1) ELSE i

\* parseInt(digits, 10) of the digit run s[i .. j-1]
RECURSIVE parseInt(_, _, _)
parseInt(s, i, j) ==
    IF j <= i THEN 0 ELSE parseInt(s, i, j - 1) * 10 + DigitVal(s[j - 1])

(***************************************************************************)
(* lib/utils: extractPrice -- title.match(/\$(\d+)/), first match only.    *)
(***************************************************************************)
DollarAt(s, i) == i >= 1 /\ i < Len(s) /\ s[i] = "$" /\ IsDigit(s, i + 1)

\* the regular expression taken at its last match instead of its first
extractPriceLastMatch(title) ==
    IF title = <<>> THEN null
    ELSE IF \E i \in 1..Len(title) : DollarAt(title, i)
         THEN LET i == CHOOSE k \in 1..Len(title) :
                         /\ DollarAt(title, k)
                         /\ \A m \in (k + 1)..Len(title) : ~DollarAt(title, m)
              IN  Some(parseInt(title, i + 1, DigitsEnd(title, i + 1)))
         ELSE null

extractPrice(title) ==
    IF title = <<>> THEN null
    ELSE IF \E i \in 1..Len(title) : DollarAt(title, i)
         THEN LET i == CHOOSE k \in 1..Len(title) :
                         /\ DollarAt(title, k)
                         /\ \A m \in 1..(k - 1) : ~DollarAt(title, m)
              IN  Some(parseInt(title, i + 1, DigitsEnd(title, i + 1)))
         ELSE null

(***************************************************************************)
(* gifthreshold: getThresholds                                             *)
(***************************************************************************)
Separators == {"IDEO_COMMA", ",", "FW_COMMA"}

\* label.split(/[separators]/): the list of segments, in order
RECURSIVE split(_, _, _)
split(label, i, cur) ==
    IF i > Len(label) THEN <<cur>>
    ELSE IF label[i] \in Separators
         THEN <<cur>> \o split(label, i + 1, <<>>)
         ELSE split(label, i + 1, Append(cur, label[i]))

\* /(\d+)\s*\*\s*(\d+)/ anchored at i: the pair it captures, or null
BareMatchAt(part, i) ==
    IF ~IsDigit(part, i) THEN null
    ELSE LET e1 == DigitsEnd(part, i)
             st == SpacesEnd(part, e1)
         IN  IF ~(st <= Len(part) /\ part[st] = "*") THEN null
             ELSE LET d2 == SpacesEnd(part, st + 1)
                  IN  IF ~IsDigit(part, d2) THEN null
                      ELSE Some([amount |-> parseInt(part, i, e1),
                                 gifts  |-> parseInt(part, d2, DigitsEnd(part, d2))])

\* /MAN\s*(\d+)\s*\*\s*(\d+)/ anchored at i
MarkerMatchAt(part, i) ==
    IF ~(i >= 1 /\ i <= Len(part) /\ part[i] = "MAN") THEN null
    ELSE BareMatchAt(part, SpacesEnd(part, i + 1))

\* part.match(re): the captures of the leftmost match, or null
MarkerMatch(part) ==
    IF \E i \in 1..Len(part) : MarkerMatchAt(part, i) # null
    THEN MarkerMatchAt(part, CHOOSE k \in 1..Len(part) :
                                /\ MarkerMatchAt(part, k) # null
                                /\ \A m \in 1..(k - 1) : MarkerMatchAt(part, m) = null)
    ELSE null

BareMatch(part) ==
    IF \E i \in 1..Len(part) : BareMatchAt(part, i) # null
    THEN BareMatchAt(part, CHOOSE k \in 1..Len(part) :
                              /\ BareMatchAt(part, k) # null
                              /\ \A m \in 1..(k - 1) : BareMatchAt(part, m) = null)
    ELSE null

\* a faulty variant: a pair is kept whatever its two integers
PartThresholdAnyInt(part) ==
    LET m1    == MarkerMatch(part)
        match == IF m1 = null THEN BareMatch(part) ELSE m1
    IN  IF match # null THEN <<Val(match)>> ELSE <<>>

\* a faulty variant: the pattern without the marker is tried first
PartThresholdBareFirst(part) ==
    LET m1    == BareMatch(part)
        match == IF m1 = null THEN MarkerMatch(part) ELSE m1
    IN  IF match # null /\ Val(match).amount > 0 /\ Val(match).gifts > 0
        THEN <<Val(match)>> ELSE <<>>

\* the body of the loop over parts: the pair a segment yields, as a list
PartThreshold(part) ==
    LET m1    == MarkerMatch(part)
        match == IF m1 = null THEN BareMatch(part) ELSE m1
    IN  IF match # null /\ Val(match).amount > 0 /\ Val(match).gifts > 0
        THEN <<Val(match)>> ELSE <<>>

RECURSIVE CollectThresholds(_)
CollectThresholds(parts) ==
    IF parts = <<>> THEN <<>>
    ELSE PartThreshold(Head(parts)) \o CollectThresholds(Tail(parts))

\* a faulty variant: x goes before the pairs of the same amount
RECURSIVE InsertBeforeEqual(_, _)
InsertBeforeEqual(x, sorted) ==
    IF sorted = <<>> THEN <<x>>
    ELSE IF x.amount <= Head(sorted).amount THEN <<x>> \o sorted
         ELSE <<Head(sorted)>> \o InsertBeforeEqual(x, Tail(sorted))

\* stable insertion of x into a list sorted by amount (after equal amounts)
RECURSIVE InsertByAmount(_, _)
InsertByAmount(x, sorted) ==
    IF sorted = <<>> THEN <<x>>
    ELSE IF x.amount < Head(sorted).amount THEN <<x>> \o sorted
         ELSE <<Head(sorted)>> \o InsertByAmount(x, Tail(sorted))

\* thresholds.sort((a, b) => a.amount - b.amount): stable, ascending
RECURSIVE SortByAmount(_)
SortByAmount(ts) ==
    IF ts = <<>> THEN <<>>
    ELSE InsertByAmount(ts[Len(ts)], SortByAmount(SubSeq(ts, 1, Len(ts) - 1)))

\* a faulty variant: the pairs are returned in the order of the text
getThresholdsUnsorted(label) ==
    IF label = <<>> THEN <<>>
    ELSE CollectThresholds(split(label, 1, <<>>))

getThresholds(label) ==
    IF label = <<>> THEN <<>>
    ELSE SortByAmount(CollectThresholds(split(label, 1, <<>>)))

(***************************************************************************)
(* gifts/useGiftSection: calculateMaxGiftSelections                        *)
(***************************************************************************)
\* the downward scan "for (i = length - 1; i >= 0; i--)" from position i
RECURSIVE ScanThresholds(_, _, _)
ScanThresholds(total, thresholds, i) ==
    IF i < 1 THEN 0
    ELSE IF total >= thresholds[i].amount THEN thresholds[i].gifts
         ELSE ScanThresholds(total, thresholds, i - 1)

\* a faulty variant: the scan runs upward and stops at the first threshold met
calculateMaxFirstMet(total, thresholds) ==
    IF \E i \in 1..Len(thresholds) : total >= thresholds[i].amount
    THEN thresholds[CHOOSE i \in 1..Len(thresholds) :
                       /\ total >= thresholds[i].amount
                       /\ \A m \in 1..(i - 1) : total < thresholds[m].amount].gifts
    ELSE 0

calculateMaxGiftSelections(total, thresholds) ==
    IF Len(thresholds) = 0 THEN 0
    ELSE ScanThresholds(total, thresholds, Len(thresholds))

(***************************************************************************)
(* The form schema (GoogleForm): an ordered list of items.  An item is a   *)
(* record [itemId, title, kind, questions, grid]; kind is "questionItem",  *)
(* "questionGroupItem", "pageBreakItem" or "textItem"; questions holds the *)
(* one question of a questionItem or the questions of a group.  A question *)
(* is [questionId, required, qkind, type, options]; qkind is "choice",     *)
(* "text" or "scale"; type is the choice type.                             *)
(***************************************************************************)
Question(id, required, qkind, type, options) ==
    [questionId |-> <<id>>, required |-> required, qkind |-> qkind,
     type |-> type, options |-> options]

Item(itemId, title, kind, questions, grid) ==
    [itemId |-> itemId, title |-> title, kind |-> kind,
     questions |-> questions, grid |-> grid]

GIFT == "~gift_section~"

\* a priced multi-select item and a multi-select gift section whose title
\* also carries a price
FormCheckbox ==
    [formId |-> "checkbox",
     items |-> <<
       Item("i1", <<"$", "1", "n">>, "questionItem",
            <<Question("p1", FALSE, "choice", "CHECKBOX",
                       << <<"a">>, <<"$", "2", "b">> >>)>>, FALSE),
       Item("i2", <<GIFT, "$", "9", " ", "MAN", "1", "*", "1", "IDEO_COMMA", "2", "*", "2">>,
            "questionItem",
            <<Question("g1", FALSE, "choice", "CHECKBOX",
                       << <<"A">>, <<"B">>, <<"C">> >>)>>, FALSE) >>]

\* gift sections whose question is single-choice: radio buttons, a dropdown
FormSingle ==
    [formId |-> "single",
     items |-> <<
       Item("i1", <<"$", "1", "n">>, "questionItem",
            <<Question("p1", FALSE, "choice", "CHECKBOX",
                       << <<"a">>, <<"$", "2", "b">> >>)>>, FALSE),
       Item("i2", <<GIFT, "MAN", "1", "*", "1">>, "questionItem",
            <<Question("g1", FALSE, "choice", "RADIO",
                       << <<"A">>, <<"B">> >>)>>, FALSE),
       Item("i3", <<GIFT, "MAN", " ", "2", " ", "*", " ", "1">>, "questionItem",
            <<Question("g2", FALSE, "choice", "DROP_DOWN",
                       << <<"A">>, <<"B">> >>)>>, FALSE) >>]

\* a gift section that is a question group with two sub-questions
FormGroup ==
    [formId |-> "group",
     items |-> <<
       Item("i1", <<"n">>, "questionItem",
            <<Question("p1", TRUE, "choice", "RADIO",
                       << <<"$", "1", "a">>, <<"b">> >>)>>, FALSE),
       Item("i2", <<GIFT, "$", "5", "MAN", "1", "*", "1">>, "questionGroupItem",
            <<Question("g1", FALSE, "choice", "CHECKBOX", << <<"A">>, <<"B">> >>),
              Question("g2", FALSE, "choice", "CHECKBOX", << <<"A">>, <<"B">> >>)>>,
            FALSE) >>]

\* a gift section whose title holds no threshold, after a priced text question
\* and a priced single-option checkbox
FormUnparsed ==
    [formId |-> "unparsed",
     items |-> <<
       Item("i1", <<"$", "3", "t">>, "questionItem",
            <<Question("t1", FALSE, "text", "none", <<>>)>>, FALSE),
       Item("i2", <<"$", "2", "c">>, "questionItem",
            <<Question("c1", FALSE, "choice", "CHECKBOX", << <<"y">> >>)>>, FALSE),
       Item("i3", <<GIFT, "g", "i", "f", "t", "s">>, "questionItem",
            <<Question("g1", FALSE, "choice", "CHECKBOX",
                       << <<"A">>, <<"B">> >>)>>, FALSE) >>]

\* two gift sections, the first of them a question group
FormTwoGifts ==
    [formId |-> "twogifts",
     items |-> <<
       Item("i1", <<GIFT, "$", "5", "MAN", "1", "*", "1">>, "questionGroupItem",
            <<Question("g1", FALSE, "choice", "CHECKBOX", << <<"A">>, <<"B">> >>),
              Question("g2", FALSE, "choice", "CHECKBOX", << <<"A">>, <<"B">> >>)>>,
            FALSE),
       Item("i2", <<GIFT, "MAN", "5", "*", "1">>, "questionItem",
            <<Question("h1", FALSE, "choice", "CHECKBOX",
                       << <<"A">>, <<"B">> >>)>>, FALSE) >>]

Forms == {FormCheckbox, FormSingle, FormGroup, FormUnparsed, FormTwoGifts}

\* a form that reached the page without an id, the case Home.handleSubmit
\* tests for before it sends anything
FormNoId == [FormSingle EXCEPT !.formId = ""]

\* item.questionItem?.question
HasQuestionItem(item) == item.kind = "questionItem" /\ Len(item.questions) >= 1

\* item.questionGroupItem?.questions
HasGroupQuestions(item) == item.kind = "questionGroupItem"

\* title.startsWith(prefix)
startsWith(title, prefix) == Len(title) >= 1 /\ title[1] = prefix

\* lib/utils: isGiftSection
isGiftSection(item) == startsWith(item.title, GIFT)

\* map.set(key, value) on a map held as a function over its keys
MapSet(map, key, value) ==
    [k \in (DOMAIN map) \cup {key} |-> IF k = key THEN value ELSE map[k]]

EmptyMap == <<>>

(***************************************************************************)
(* gifts/useGiftSection: useGiftSections -- questionId -> GiftSectionData  *)
(***************************************************************************)
\* item.questionItem?.question?.questionId ||
\* item.questionGroupItem?.questions?.[0]?.questionId
GiftQuestionId(item) ==
    IF HasQuestionItem(item) THEN Some(item.questions[1].questionId)
    ELSE IF HasGroupQuestions(item) /\ Len(item.questions) >= 1
         THEN Some(item.questions[1].questionId)
         ELSE null

RECURSIVE GiftSectionsFold(_, _, _)
GiftSectionsFold(items, i, map) ==
    IF i > Len(items) THEN map
    ELSE LET item == items[i]
             qid  == GiftQuestionId(item)
         IN  IF startsWith(item.title, GIFT) /\ qid # null
             THEN GiftSectionsFold(items, i + 1,
                      MapSet(map, Val(qid),
                             [item |-> item, questionId |-> Val(qid),
                              thresholds |-> getThresholds(item.title)]))
             ELSE GiftSectionsFold(items, i + 1, map)

useGiftSections(items) == GiftSectionsFold(items, 1, EmptyMap)

(***************************************************************************)
(* DynamicForm: questionPriceMap and optionPriceMap                        *)
(***************************************************************************)
RECURSIVE SetAllQuestions(_, _, _, _)
SetAllQuestions(questions, j, price, map) ==
    IF j > Len(questions) THEN map
    ELSE SetAllQuestions(questions, j + 1, price,
                         MapSet(map, questions[j].questionId, price))

RECURSIVE QuestionPriceFold(_, _, _)
QuestionPriceFold(items, i, map) ==
    IF i > Len(items) THEN map
    ELSE LET item  == items[i]
             price == extractPrice(item.title)
         IN  IF price # null /\ HasQuestionItem(item)
             THEN QuestionPriceFold(items, i + 1,
                      MapSet(map, item.questions[1].questionId, Val(price)))
             ELSE IF price # null /\ HasGroupQuestions(item)
             THEN QuestionPriceFold(items, i + 1,
                      SetAllQuestions(item.questions, 1, Val(price), map))
             ELSE QuestionPriceFold(items, i + 1, map)

questionPriceMapOf(items) == QuestionPriceFold(items, 1, EmptyMap)

RECURSIVE SetOptionPrices(_, _, _)
SetOptionPrices(options, j, map) ==
    IF j > Len(options) THEN map
    ELSE LET price == extractPrice(options[j])
         IN  SetOptionPrices(options, j + 1,
                 IF price # null THEN MapSet(map, options[j], Val(price)) ELSE map)

RECURSIVE SetQuestionsOptionPrices(_, _, _)
SetQuestionsOptionPrices(questions, j, map) ==
    IF j > Len(questions) THEN map
    ELSE SetQuestionsOptionPrices(questions, j + 1,
             IF questions[j].qkind = "choice"
             THEN SetOptionPrices(questions[j].options, 1, map) ELSE map)

RECURSIVE OptionPriceFold(_, _, _)
OptionPriceFold(items, i, map) ==
    IF i > Len(items) THEN map
    ELSE LET item == items[i]
         IN  IF HasQuestionItem(item) \/ HasGroupQuestions(item)
             THEN OptionPriceFold(items, i + 1,
                      SetQuestionsOptionPrices(item.questions, 1, map))
             ELSE OptionPriceFold(items, i + 1, map)

optionPriceMapOf(items) == OptionPriceFold(items, 1, EmptyMap)

(***************************************************************************)
(* Field names and form values                                             *)
(***************************************************************************)
\* `question_${questionId}`
FieldName(questionId) == <<"question_">> \o questionId

\* `question_${gridQuestionId}_row_${rowIdx}_col_${colIdx}`
GridFieldName(questionId, row, col) ==
    <<"question_">> \o questionId \o <<"_row_", row, "_col_", col>>

Undefined == [t |-> "undef"]

Str(s) == [t |-> "str", v |-> s]

Arr(a) == [t |-> "arr", v |-> a]

Bool(b) == [t |-> "bool", v |-> b]

Num(n) == [t |-> "num", v |-> n]

\* s.trim()
RECURSIVE trimStart(_)
trimStart(s) == IF s # <<>> /\ Head(s) = " " THEN trimStart(Tail(s)) ELSE s

RECURSIVE trimEnd(_)
trimEnd(s) ==
    IF s # <<>> /\ s[Len(s)] = " " THEN trimEnd(SubSeq(s, 1, Len(s) - 1)) ELSE s

trim(s) == trimEnd(trimStart(s))

\* JavaScript truthiness of a form value: "if (value)"
Truthy(value) ==
    CASE value.t = "undef" -> FALSE
      [] value.t = "str"   -> value.v # <<>>
      [] value.t = "arr"   -> TRUE
      [] value.t = "bool"  -> value.v
      [] value.t = "num"   -> value.v # 0

\* /_row_\d+_col_\d+$/ matched by the tokens name[k .. Len(name)]
IsRowColSuffix(name, k) ==
    /\ k >= 1 /\ k <= Len(name) /\ name[k] = "_row_"
    /\ IsDigit(name, k + 1)
    /\ LET c == DigitsEnd(name, k + 1)
       IN  /\ c <= Len(name) /\ name[c] = "_col_"
           /\ IsDigit(name, c + 1)
           /\ DigitsEnd(name, c + 1) = Len(name) + 1

\* a faulty variant: the row/column suffix of a matrix cell stays in the id
questionIdMatchNoStrip(fieldName) ==
    IF ~(Len(fieldName) >= 2 /\ fieldName[1] = "question_") THEN null
    ELSE Some(SubSeq(fieldName, 2, Len(fieldName)))

\* fieldName.match(/^question_(.+?)(?:_row_\d+_col_\d+)?$/): group 1, or null.
\* The lazy group takes the shortest non-empty id that lets the rest match.
questionIdMatch(fieldName) ==
    IF ~(Len(fieldName) >= 2 /\ fieldName[1] = "question_") THEN null
    ELSE IF \E k \in 3..Len(fieldName) : IsRowColSuffix(fieldName, k)
         THEN LET k == CHOOSE j \in 3..Len(fieldName) :
                          /\ IsRowColSuffix(fieldName, j)
                          /\ \A m \in 3..(j - 1) : ~IsRowColSuffix(fieldName, m)
              IN  Some(SubSeq(fieldName, 2, k - 1))
         ELSE Some(SubSeq(fieldName, 2, Len(fieldName)))

(***************************************************************************)
(* DynamicForm: totalExcludingGift                                         *)
(***************************************************************************)
\* the per-value rule of lines 320-327 and 333-340: the option's own price,
\* else the price of the question's item, else nothing
\* a faulty variant: the price of the question's item comes first
ValuePriceQuestionFirst(optionValue, questionId, questionPriceMap, optionPriceMap) ==
    IF questionId \in DOMAIN questionPriceMap THEN questionPriceMap[questionId]
    ELSE IF optionValue \in DOMAIN optionPriceMap THEN optionPriceMap[optionValue]
    ELSE 0

ValuePrice(optionValue, questionId, questionPriceMap, optionPriceMap) ==
    IF optionValue \in DOMAIN optionPriceMap THEN optionPriceMap[optionValue]
    ELSE IF questionId \in DOMAIN questionPriceMap THEN questionPriceMap[questionId]
    ELSE 0

\* value.forEach(...) over a list value
RECURSIVE ArrayPrice(_, _, _, _, _)
ArrayPrice(list, i, questionId, questionPriceMap, optionPriceMap) ==
    IF i > Len(list) THEN 0
    ELSE (IF trim(list[i]) # <<>>
          THEN ValuePrice(list[i], questionId, questionPriceMap, optionPriceMap)
          ELSE 0)
         + ArrayPrice(list, i + 1, questionId, questionPriceMap, optionPriceMap)

\* a faulty variant: a boolean or a number is priced whether truthy or not
ScalarPriceAnyScalar(value, questionId, questionPriceMap, optionPriceMap) ==
    IF value.t = "str"
    THEN IF trim(value.v) # <<>>
         THEN ValuePrice(value.v, questionId, questionPriceMap, optionPriceMap)
         ELSE 0
    ELSE IF value.t \in {"num", "bool"}
         THEN IF questionId \in DOMAIN questionPriceMap
              THEN questionPriceMap[questionId] ELSE 0
         ELSE 0

\* the "else if (value)" branch for a value that is not a list
ScalarPrice(value, questionId, questionPriceMap, optionPriceMap) ==
    IF ~Truthy(value) THEN 0
    ELSE IF value.t = "str"
         THEN IF trim(value.v) # <<>>
              THEN ValuePrice(value.v, questionId, questionPriceMap, optionPriceMap)
              ELSE 0
         ELSE IF value.t \in {"num", "bool"}
              THEN IF questionId \in DOMAIN questionPriceMap
                   THEN questionPriceMap[questionId] ELSE 0
              ELSE 0

\* a faulty variant: a field whose name is not that of a question is priced
\* by its value alone
FieldPriceAnyName(fieldName, value, giftSections, questionPriceMap, optionPriceMap) ==
    LET questionId == IF questionIdMatch(fieldName) = null THEN <<>>
                      ELSE Val(questionIdMatch(fieldName))
    IN  IF questionId \in DOMAIN giftSections THEN 0
        ELSE IF value.t = "arr"
             THEN ArrayPrice(value.v, 1, questionId, questionPriceMap, optionPriceMap)
             ELSE ScalarPrice(value, questionId, questionPriceMap, optionPriceMap)

\* the callback of Object.entries(formValues).forEach: what one field adds
FieldPrice(fieldName, value, giftSections, questionPriceMap, optionPriceMap) ==
    LET questionIdMatched == questionIdMatch(fieldName)
    IN  IF questionIdMatched = null THEN 0
        ELSE LET questionId == Val(questionIdMatched)
             IN  IF questionId \in DOMAIN giftSections THEN 0
                 ELSE IF value.t = "arr"
                      THEN ArrayPrice(value.v, 1, questionId,
                                      questionPriceMap, optionPriceMap)
                      ELSE ScalarPrice(value, questionId,
                                       questionPriceMap, optionPriceMap)

RECURSIVE SumFields(_, _, _, _, _)
SumFields(names, values, giftSections, questionPriceMap, optionPriceMap) ==
    IF names = {} THEN 0
    ELSE LET fieldName == CHOOSE n \in names : TRUE
         IN  FieldPrice(fieldName, values[fieldName],
                        giftSections, questionPriceMap, optionPriceMap)
             + SumFields(names \ {fieldName}, values,
                         giftSections, questionPriceMap, optionPriceMap)

\* useMemo(..., [form]): the three indices are computed once for a form
Memo ==
    [items \in {f.items : f \in Forms} |->
        [giftSections     |-> useGiftSections(items),
         questionPriceMap |-> questionPriceMapOf(items),
         optionPriceMap   |-> optionPriceMapOf(items)]]

TotalExcludingGift(items, values) ==
    SumFields(DOMAIN values, values, Memo[items].giftSections,
              Memo[items].questionPriceMap, Memo[items].optionPriceMap)

(***************************************************************************)
(* pages/index: Home.handleSubmit -- the total sent with the submission    *)
(***************************************************************************)
\* the literals of the two hard-coded gift stages, each one token
FIRST_STAGE == "FIRST_STAGE_GIFT"

SECOND_STAGE == "SECOND_STAGE_GIFT"

\* title.includes(literal)
includes(title, literal) == \E i \in 1..Len(title) : title[i] = literal

\* form.items.find(title includes literal)?.questionItem?.question?.questionId
StageGiftQuestionId(items, literal) ==
    IF \E i \in 1..Len(items) : includes(items[i].title, literal)
    THEN LET i == CHOOSE k \in 1..Len(items) :
                     /\ includes(items[k].title, literal)
                     /\ \A m \in 1..(k - 1) : ~includes(items[m].title, literal)
         IN  IF HasQuestionItem(items[i])
             THEN Some(items[i].questions[1].questionId) ELSE null
    ELSE null

ItemHasQuestionId(item, questionId) ==
    /\ HasQuestionItem(item) \/ HasGroupQuestions(item)
    /\ \E j \in 1..Len(item.questions) : item.questions[j].questionId = questionId

\* form.items.find(item of questionId): the list of its title, or null
FindItemTitle(items, questionId) ==
    IF \E i \in 1..Len(items) : ItemHasQuestionId(items[i], questionId)
    THEN LET i == CHOOSE k \in 1..Len(items) :
                     /\ ItemHasQuestionId(items[k], questionId)
                     /\ \A m \in 1..(k - 1) : ~ItemHasQuestionId(items[m], questionId)
         IN  Some(items[i].title)
    ELSE null

\* optionPrice || itemPrice || 0  (a price of 0 is falsy)
OrPrice(optionPrice, itemPrice) ==
    IF optionPrice # null /\ Val(optionPrice) # 0 THEN Val(optionPrice)
    ELSE IF itemPrice # null THEN Val(itemPrice)
    ELSE 0

RECURSIVE SubmitArrayPrice(_, _, _)
SubmitArrayPrice(list, i, itemPrice) ==
    IF i > Len(list) THEN 0
    ELSE (IF list[i] # <<>> /\ trim(list[i]) # <<>>
          THEN OrPrice(extractPrice(list[i]), itemPrice) ELSE 0)
         + SubmitArrayPrice(list, i + 1, itemPrice)

\* String(value) of a scalar holds a price text only when value is a string
SubmitScalarPrice(value, itemPrice) ==
    IF ~Truthy(value) THEN 0
    ELSE IF value.t = "str"
         THEN IF trim(value.v) # <<>>
              THEN OrPrice(extractPrice(value.v), itemPrice) ELSE 0
         ELSE OrPrice(null, itemPrice)

SubmitFieldPrice(items, fieldName, value) ==
    LET questionIdMatched == questionIdMatch(fieldName)
    IN  IF questionIdMatched = null THEN 0
        ELSE LET questionId == Val(questionIdMatched)
                 title      == FindItemTitle(items, questionId)
             IN  IF \/ Some(questionId) = StageGiftQuestionId(items, FIRST_STAGE)
                    \/ Some(questionId) = StageGiftQuestionId(items, SECOND_STAGE)
                 THEN 0
                 ELSE IF title = null THEN 0
                 ELSE IF value.t = "arr"
                      THEN SubmitArrayPrice(value.v, 1, extractPrice(Val(title)))
                      ELSE SubmitScalarPrice(value, extractPrice(Val(title)))

RECURSIVE SubmitSum(_, _, _)
SubmitSum(items, names, data) ==
    IF names = {} THEN 0
    ELSE LET fieldName == CHOOSE n \in names : TRUE
         IN  SubmitFieldPrice(items, fieldName, data[fieldName])
             + SubmitSum(items, names \ {fieldName}, data)

calculatedTotal(items, data) == SubmitSum(items, DOMAIN data, data)

(***************************************************************************)
(* DynamicForm: steps                                                      *)
(***************************************************************************)
\* lib/utils: hasQuestion
hasQuestion(item) ==
    HasQuestionItem(item) \/ HasGroupQuestions(item) \/ item.kind = "pageBreakItem"

\* issection: /^STAR\s*.+?\s*QU\s*STAR/.test(title.trim()), "STAR" and "QU"
\* standing for the four-pointed star (U+2726) and the section character (U+5340)
isSection(title) ==
    LET t == trim(title)
    IN  /\ Len(t) >= 4 /\ t[1] = "STAR"
        /\ \E k \in 3..Len(t) :
              /\ t[k] = "QU"
              /\ LET e == SpacesEnd(t, k + 1) IN e <= Len(t) /\ t[e] = "STAR"

\* a faulty variant: only the first item of the step is looked at
StepHasQuestionsFirstOnly(stepItems) ==
    \E i \in 1..Len(stepItems) :
        /\ i = 1
        /\ hasQuestion(stepItems[i])
        /\ ~isSection(stepItems[i].title)
        /\ ~isGiftSection(stepItems[i])

\* currentStepItems.some(i => hasQuestion(i) && !isSection(i.title || "") && !isGiftSection(i))
StepHasQuestions(stepItems) ==
    \E i \in 1..Len(stepItems) :
        /\ hasQuestion(stepItems[i])
        /\ ~isSection(stepItems[i].title)
        /\ ~isGiftSection(stepItems[i])

\* stepArrays after "save current step if it has items"
PushIfQuestions(stepArrays, currentStepItems) ==
    IF Len(currentStepItems) > 0 /\ StepHasQuestions(currentStepItems)
    THEN Append(stepArrays, currentStepItems) ELSE stepArrays

RECURSIVE StepsFold(_, _, _, _)
StepsFold(items, i, stepArrays, currentStepItems) ==
    IF i > Len(items) THEN PushIfQuestions(stepArrays, currentStepItems)
    ELSE LET item == items[i]
         IN  IF isGiftSection(item)
             THEN StepsFold(items, i + 1,
                      Append(PushIfQuestions(stepArrays, currentStepItems), <<item>>),
                      <<>>)
             ELSE IF item.title # <<>> /\ isSection(item.title)
             THEN StepsFold(items, i + 1,
                      PushIfQuestions(stepArrays, currentStepItems), <<item>>)
             ELSE StepsFold(items, i + 1, stepArrays, Append(currentStepItems, item))

stepsOf(items) ==
    LET stepArrays == StepsFold(items, 1, <<>>, <<>>)
    IN  IF Len(stepArrays) = 0 THEN <<items>> ELSE stepArrays

(***************************************************************************)
(* The state of a DynamicForm with its Review screen and the request sent  *)
(* by Home.handleSubmit.                                                   *)
(***************************************************************************)
VARIABLES
    form,                \* the schema handed to DynamicForm (never changes)
    formValues,          \* watch(): field name -> value
    totalExcludingGift,  \* the memo of the same name, as of the last render
    effectPending,       \* the gift enforcement effect is scheduled to run
    currentStep,         \* useState(1)
    showReview,          \* useState(false)
    reviewData,          \* useState(null): null or Some(values)
    submitted,           \* useState(false)
    isProcessing,        \* Review: useState(false)
    isSubmittingRef,     \* Review: useRef(false)
    inflight,            \* the request bodies whose fetch awaits its response
    debouncedSubmit,     \* Review: the calls of performSubmit the timer holds
    onReviewSubmitResult, \* the promise of the last onReviewSubmit call
    sinkCalls,           \* the request bodies sent to the submission route
    lastEvent,           \* history: the name of the last step taken
    parsed               \* the last label parsed: [label, thresholds, price]

vars == <<parsed, form, formValues, totalExcludingGift, effectPending, currentStep,
          showReview, reviewData, submitted, isProcessing, isSubmittingRef,
          inflight, sinkCalls, lastEvent, debouncedSubmit, onReviewSubmitResult>>

giftSections == useGiftSections(form.items)

\* what the parsers return for a label: getThresholds and extractPrice
ParseOf(label) ==
    [label |-> label, thresholds |-> getThresholds(label),
     price |-> extractPrice(label)]

\* the parsers called without a label (undefined)
NothingParsed == ParseOf(<<>>)

steps == stepsOf(form.items)

totalFormSteps == Len(steps)

\* getStepItems(stepNumber)
getStepItems(stepNumber) ==
    IF stepNumber < 1 \/ stepNumber > totalFormSteps THEN <<>>
    ELSE steps[stepNumber]

\* every question of the schema, each with its item
QuestionsOf(items) ==
    UNION {{[item |-> items[i], question |-> items[i].questions[j]] :
                j \in 1..Len(items[i].questions)} : i \in 1..Len(items)}

\* the value watch() holds for each field the form registers
InitialValues(items) ==
    [n \in {FieldName(e.question.questionId) : e \in QuestionsOf(items)} |-> Undefined]

(***************************************************************************)
(* questions/Question and questions/ChoiceQuestion: what is rendered for   *)
(* the first question of an item that is not a plain question group        *)
(***************************************************************************)
\* rendered by QuestionGroup, which knows nothing of gift sections
RendersAsQuestionGroup(item) == HasGroupQuestions(item) /\ ~item.grid

isGiftSectionQuestion(item) ==
    item.questions[1].questionId \in DOMAIN giftSections \/ isGiftSection(item)

\* giftSectionData?.thresholds || (isGiftItem ? getThresholds(item.title) : [])
thresholdsOf(item) ==
    LET questionId == item.questions[1].questionId
    IN  IF questionId \in DOMAIN giftSections THEN giftSections[questionId].thresholds
        ELSE IF isGiftSection(item) THEN getThresholds(item.title) ELSE <<>>

\* currentGiftSelections: the watched field value of a gift section question
currentGiftSelections(item, values) ==
    IF isGiftSectionQuestion(item)
    THEN values[FieldName(item.questions[1].questionId)] ELSE Undefined

currentGiftCount(item, values) ==
    LET cur == currentGiftSelections(item, values)
    IN  IF cur.t = "arr" THEN Len(cur.v) ELSE 0

maxGiftSelections(item, values, total) ==
    IF isGiftSectionQuestion(item) /\ Len(thresholdsOf(item)) > 0
    THEN calculateMaxGiftSelections(total, thresholdsOf(item)) ELSE 0

isGiftLimitReached(item, values, total) ==
    /\ isGiftSectionQuestion(item)
    /\ currentGiftCount(item, values) >= maxGiftSelections(item, values, total)

InList(list, x) == \E i \in 1..Len(list) : list[i] = x

\* ChoiceQuestion: Array.isArray(currentGiftSelections) ? includes(option) : false
isOptionSelected(item, values, option) ==
    LET cur == currentGiftSelections(item, values)
    IN  IF cur.t = "arr" THEN InList(cur.v, option) ELSE FALSE

\* ChoiceQuestion: the disabled attribute of the check box or radio of option
isDisabled(item, values, total, option) ==
    /\ isGiftSectionQuestion(item)
    /\ ~isOptionSelected(item, values, option)
    /\ isGiftLimitReached(item, values, total)

\* a faulty variant: without the test for an empty list, a section with no
\* rule reads as one whose first threshold is not reached
GiftSectionInfoNoEmptyTest(thresholds, total, max, count) ==
    IF Len(thresholds) = 0 \/ total < thresholds[1].amount THEN "spend_to_qualify"
    ELSE "current_allowance"

\* gifts/GiftSectionInfo: which of its three messages is shown
GiftSectionInfo(thresholds, total, max, count) ==
    IF Len(thresholds) = 0 THEN "cannot_parse_rules"
    ELSE IF total < thresholds[1].amount THEN "spend_to_qualify"
    ELSE "current_allowance"

(***************************************************************************)
(* The inputs on screen: those of the items of the current step.  An input *)
(* is [item, question, guarded]; guarded tells that ChoiceQuestion renders *)
(* it (with the disabled attribute), not QuestionGroup.                    *)
(***************************************************************************)
FormShown == ~showReview /\ ~submitted

InputsOfItem(item) ==
    IF item.kind = "pageBreakItem" \/ item.kind = "textItem" THEN {}
    ELSE IF RendersAsQuestionGroup(item)
         THEN {[item |-> item, question |-> item.questions[j], guarded |-> FALSE] :
                  j \in 1..Len(item.questions)}
         ELSE IF Len(item.questions) >= 1 /\ ~item.grid
              THEN {[item |-> item, question |-> item.questions[1],
                     guarded |-> item.questions[1].qkind = "choice"]}
              ELSE {}

InputsShown ==
    IF FormShown
    THEN UNION {InputsOfItem(getStepItems(currentStep)[i]) :
                   i \in 1..Len(getStepItems(currentStep))}
    ELSE {}

\* the list without its entry x
RECURSIVE Without(_, _)
Without(list, x) ==
    IF list = <<>> THEN <<>>
    ELSE IF Head(list) = x THEN Without(Tail(list), x)
         ELSE <<Head(list)>> \o Without(Tail(list), x)

\* the list with x put at position k
InsertAt(list, k, x) ==
    SubSeq(list, 1, k - 1) \o <<x>> \o SubSeq(list, k, Len(list))

\* a faulty variant: the memo keeps the total of the render before
RerenderStale(values, event) ==
    /\ formValues' = values
    /\ totalExcludingGift' = totalExcludingGift
    /\ effectPending' = TRUE
    /\ lastEvent' = event

\* a re-render after the answer set changed to values: the memo is
\* recomputed and the enforcement effect, which depends on formValues, is
\* scheduled
Rerender(values, event) ==
    /\ formValues' = values
    /\ totalExcludingGift' = TotalExcludingGift(form.items, values)
    /\ effectPending' = TRUE
    /\ lastEvent' = event

NavUnchanged ==
    UNCHANGED <<parsed, form, currentStep, showReview, reviewData, submitted,
                isProcessing, isSubmittingRef, inflight, sinkCalls,
                debouncedSubmit, onReviewSubmitResult>>

\* React runs a scheduled effect before it handles the next user event
UserEvent == ~effectPending


(***************************************************************************)
(* User events on the inputs of the current step                           *)
(***************************************************************************)
CanUse(input, option) ==
    ~(input.guarded /\ isDisabled(input.item, formValues, totalExcludingGift, option))

\* a click on one check box.  A group of check boxes holds the list of the
\* checked options; the order react-hook-form lists them in is not fixed by
\* this repository, so the newly checked option may land at any position.
\* A lone check box holds its value when checked and false when not.
ToggleCheckbox ==
    \E input \in InputsShown :
      \E o \in 1..Len(input.question.options) :
        LET option == input.question.options[o]
            name   == FieldName(input.question.questionId)
            cur    == formValues[name]
            list   == IF cur.t = "arr" THEN cur.v ELSE <<>>
        IN  /\ UserEvent
            /\ input.question.qkind = "choice"
            /\ input.question.type = "CHECKBOX"
            /\ CanUse(input, option)
            /\ IF Len(input.question.options) = 1
               THEN Rerender([formValues EXCEPT ![name] =
                        IF cur = Str(option) THEN Bool(FALSE) ELSE Str(option)],
                        "ToggleCheckbox")
               ELSE IF InList(list, option)
                    THEN Rerender([formValues EXCEPT ![name] =
                                      Arr(Without(list, option))], "ToggleCheckbox")
                    ELSE \E k \in 1..(Len(list) + 1) :
                            Rerender([formValues EXCEPT ![name] =
                                         Arr(InsertAt(list, k, option))],
                                     "ToggleCheckbox")
            /\ NavUnchanged

\* a click on a radio button that is not the checked one
SelectRadio ==
    \E input \in InputsShown :
      \E o \in 1..Len(input.question.options) :
        LET option == input.question.options[o]
            name   == FieldName(input.question.questionId)
        IN  /\ UserEvent
            /\ input.question.qkind = "choice"
            /\ input.question.type = "RADIO"
            /\ CanUse(input, option)
            /\ formValues[name] # Str(option)
            /\ Rerender([formValues EXCEPT ![name] = Str(option)], "SelectRadio")
            /\ NavUnchanged

\* a choice in a dropdown: one of the options or the empty first entry;
\* the select element is never disabled
SelectDropdown ==
    \E input \in InputsShown :
      \E o \in 0..Len(input.question.options) :
        LET option == IF o = 0 THEN <<>> ELSE input.question.options[o]
            name   == FieldName(input.question.questionId)
        IN  /\ UserEvent
            /\ input.question.qkind = "choice"
            /\ input.question.type = "DROP_DOWN"
            /\ formValues[name] # Str(option)
            /\ Rerender([formValues EXCEPT ![name] = Str(option)], "SelectDropdown")
            /\ NavUnchanged

\* the texts a respondent types: nothing, a blank, a word, an option label
TextInputs == {<<>>, <<" ">>, <<"x">>, <<"$", "2", "b">>}

TypeText ==
    \E input \in InputsShown :
      \E text \in TextInputs :
        LET name == FieldName(input.question.questionId)
        IN  /\ UserEvent
            /\ input.question.qkind = "text"
            /\ formValues[name] # Str(text)
            /\ Rerender([formValues EXCEPT ![name] = Str(text)], "TypeText")
            /\ NavUnchanged

(***************************************************************************)
(* DynamicForm: the effect "Enforce gift selection limits for all gift     *)
(* sections"                                                               *)
(***************************************************************************)
\* a faulty variant: the most recent selections are the ones kept
EnforcedKeepLast(currentSelections, maxSelections) ==
    IF currentSelections.t = "arr" /\ Len(currentSelections.v) > maxSelections
    THEN Arr(SubSeq(currentSelections.v,
                    Len(currentSelections.v) - maxSelections + 1,
                    Len(currentSelections.v)))
    ELSE currentSelections

\* a faulty variant: a run takes only the last selection off a list that
\* is too long
EnforcedOneLess(currentSelections, maxSelections) ==
    IF currentSelections.t = "arr" /\ Len(currentSelections.v) > maxSelections
    THEN Arr(SubSeq(currentSelections.v, 1, Len(currentSelections.v) - 1))
    ELSE currentSelections

\* the value the effect leaves in the field of one gift section
Enforced(currentSelections, maxSelections) ==
    IF currentSelections.t = "arr" /\ Len(currentSelections.v) > maxSelections
    THEN Arr(SubSeq(currentSelections.v, 1, maxSelections))
    ELSE currentSelections

\* the field values after the effect's giftSections.forEach
EnforcedValues(values, total) ==
    [name \in DOMAIN values |->
        IF \E questionId \in DOMAIN giftSections : name = FieldName(questionId)
        THEN LET questionId == CHOOSE q \in DOMAIN giftSections : name = FieldName(q)
             IN  Enforced(values[name],
                          calculateMaxGiftSelections(total,
                              giftSections[questionId].thresholds))
        ELSE values[name]]

\* one run of the effect; a setValue re-renders the form and, formValues
\* being a dependency, schedules the effect again
EnforceGiftLimits ==
    /\ effectPending
    /\ LET trimmed == EnforcedValues(formValues, totalExcludingGift)
       IN  /\ formValues' = trimmed
           /\ totalExcludingGift' = TotalExcludingGift(form.items, trimmed)
           /\ effectPending' = (trimmed # formValues)
           /\ lastEvent' = (IF trimmed # formValues THEN "setValue"
                                                    ELSE "EnforceGiftLimits")
    /\ NavUnchanged

(***************************************************************************)
(* DynamicForm: getSelectedProducts and getSelectedGifts, computed from    *)
(* reviewData                                                              *)
(***************************************************************************)
textQuestionIds ==
    {e.question.questionId : e \in {x \in QuestionsOf(form.items) :
                                        x.question.qkind = "text"}}

\* the product a string value yields: none when it has no price at all
ProductOf(optionValue, questionId) ==
    IF trim(optionValue) = <<>> THEN <<>>
    ELSE IF optionValue \in DOMAIN optionPriceMapOf(form.items)
         THEN <<[name |-> optionValue,
                 price |-> optionPriceMapOf(form.items)[optionValue]]>>
         ELSE IF questionId \in DOMAIN questionPriceMapOf(form.items)
              THEN <<[name |-> optionValue,
                      price |-> questionPriceMapOf(form.items)[questionId]]>>
              ELSE <<>>

GiftOf(optionValue) ==
    IF trim(optionValue) = <<>> THEN <<>>
    ELSE <<[name |-> optionValue, price |-> 0]>>

RECURSIVE ProductsOfList(_, _, _)
ProductsOfList(list, i, questionId) ==
    IF i > Len(list) THEN <<>>
    ELSE ProductOf(list[i], questionId) \o ProductsOfList(list, i + 1, questionId)

RECURSIVE GiftsOfList(_, _)
GiftsOfList(list, i) ==
    IF i > Len(list) THEN <<>>
    ELSE GiftOf(list[i]) \o GiftsOfList(list, i + 1)

ProductsOfField(fieldName, value) ==
    LET questionIdMatched == questionIdMatch(fieldName)
    IN  IF questionIdMatched = null THEN <<>>
        ELSE LET questionId == Val(questionIdMatched)
             IN  IF questionId \in textQuestionIds \/ questionId \in DOMAIN giftSections
                 THEN <<>>
                 ELSE IF value.t = "arr" THEN ProductsOfList(value.v, 1, questionId)
                 ELSE IF Truthy(value) /\ value.t = "str"
                      THEN ProductOf(value.v, questionId)
                      ELSE <<>>

GiftsOfField(fieldName, value) ==
    LET questionIdMatched == questionIdMatch(fieldName)
    IN  IF questionIdMatched = null THEN <<>>
        ELSE IF Val(questionIdMatched) \notin DOMAIN giftSections THEN <<>>
        ELSE IF value.t = "arr" THEN GiftsOfList(value.v, 1)
        ELSE IF Truthy(value) /\ value.t = "str" THEN GiftOf(value.v)
        ELSE <<>>

RECURSIVE ProductsOfFields(_, _)
ProductsOfFields(names, data) ==
    IF names = {} THEN <<>>
    ELSE LET fieldName == CHOOSE n \in names : TRUE
         IN  ProductsOfField(fieldName, data[fieldName])
             \o ProductsOfFields(names \ {fieldName}, data)

RECURSIVE GiftsOfFields(_, _)
GiftsOfFields(names, data) ==
    IF names = {} THEN <<>>
    ELSE LET fieldName == CHOOSE n \in names : TRUE
         IN  GiftsOfField(fieldName, data[fieldName])
             \o GiftsOfFields(names \ {fieldName}, data)

getSelectedProducts ==
    IF reviewData = null THEN <<>>
    ELSE ProductsOfFields(DOMAIN Val(reviewData), Val(reviewData))

getSelectedGifts ==
    IF reviewData = null THEN <<>>
    ELSE GiftsOfFields(DOMAIN Val(reviewData), Val(reviewData))

(***************************************************************************)
(* DynamicForm: navigation between the steps and the review screen         *)
(***************************************************************************)
\* register(fieldName, {required: isRequired}): a required field is in error
\* while it holds no answer
RequiredEmpty(question) ==
    /\ question.required
    /\ formValues[FieldName(question.questionId)]
          \in {Undefined, Str(<<>>), Arr(<<>>), Bool(FALSE)}

\* what the validation of handleSubmit may find: a required input on screen
\* without an answer fails it; whether a required field that is not on
\* screen is still validated is left to react-hook-form
ValidOutcomes ==
    IF \E input \in InputsShown : RequiredEmpty(input.question) THEN {FALSE}
    ELSE IF \E e \in QuestionsOf(form.items) : RequiredEmpty(e.question)
         THEN BOOLEAN
         ELSE {TRUE}

\* the Next button calling onFormNext whatever the validation finds
onFormNextUnvalidated ==
    \E isValid \in {TRUE} :
        /\ UserEvent
        /\ FormShown
        /\ IF ~isValid
           THEN UNCHANGED <<currentStep, reviewData, showReview,
                            isProcessing, isSubmittingRef>>
           ELSE IF currentStep < totalFormSteps
                THEN /\ currentStep' = currentStep + 1
                     /\ UNCHANGED <<reviewData, showReview,
                                    isProcessing, isSubmittingRef>>
                ELSE IF currentStep = totalFormSteps
                     THEN /\ reviewData' = Some(formValues)
                          /\ showReview' = TRUE
                          \* the Review screen mounts with fresh state
                          /\ isProcessing' = FALSE
                          /\ isSubmittingRef' = FALSE
                          /\ UNCHANGED currentStep
                     ELSE UNCHANGED <<currentStep, reviewData, showReview,
                                      isProcessing, isSubmittingRef>>
        /\ lastEvent' = "onFormNext"
        /\ UNCHANGED <<parsed, form, formValues, totalExcludingGift, effectPending,
                       submitted, inflight, sinkCalls,
                       debouncedSubmit, onReviewSubmitResult>>

\* the Next button: handleSubmit(onFormNext)(), which calls onFormNext only
\* when the validation passes
onFormNext ==
    \E isValid \in ValidOutcomes :
        /\ UserEvent
        /\ FormShown
        /\ IF ~isValid
           THEN UNCHANGED <<currentStep, reviewData, showReview,
                            isProcessing, isSubmittingRef>>
           ELSE IF currentStep < totalFormSteps
                THEN /\ currentStep' = currentStep + 1
                     /\ UNCHANGED <<reviewData, showReview,
                                    isProcessing, isSubmittingRef>>
                ELSE IF currentStep = totalFormSteps
                     THEN /\ reviewData' = Some(formValues)
                          /\ showReview' = TRUE
                          \* the Review screen mounts with fresh state
                          /\ isProcessing' = FALSE
                          /\ isSubmittingRef' = FALSE
                          /\ UNCHANGED currentStep
                     ELSE UNCHANGED <<currentStep, reviewData, showReview,
                                      isProcessing, isSubmittingRef>>
        /\ lastEvent' = "onFormNext"
        /\ UNCHANGED <<parsed, form, formValues, totalExcludingGift, effectPending,
                       submitted, inflight, sinkCalls,
                       debouncedSubmit, onReviewSubmitResult>>

\* the Back button of FormNavButtons, shown on every step after the first
onStepBack ==
    /\ UserEvent
    /\ FormShown
    /\ currentStep > 1
    /\ IF showReview
       THEN showReview' = FALSE /\ reviewData' = null /\ UNCHANGED currentStep
       ELSE currentStep' = currentStep - 1 /\ UNCHANGED <<showReview, reviewData>>
    /\ lastEvent' = "onStepBack"
    /\ UNCHANGED <<parsed, form, formValues, totalExcludingGift, effectPending, submitted,
                   isProcessing, isSubmittingRef, inflight, sinkCalls,
                   debouncedSubmit, onReviewSubmitResult>>

(***************************************************************************)
(* screens/Review, DynamicForm.onReviewSubmit and Home.handleSubmit        *)
(***************************************************************************)
ReviewShown == showReview /\ ~submitted

\* SelectedProducts: products.reduce((sum, product) => sum + product.price, 0)
RECURSIVE SumOfPrices(_, _)
SumOfPrices(products, i) ==
    IF i > Len(products) THEN 0
    ELSE products[i].price + SumOfPrices(products, i + 1)

\* the total the review screen and the success screen show
productsTotal == SumOfPrices(getSelectedProducts, 1)

\* Review renders its two buttons only when something was selected
ReviewHasButtons == Len(getSelectedProducts) > 0 \/ Len(getSelectedGifts) > 0

\* isSubmitting of the form state is false whenever the review is on screen
isLoading == isProcessing

\* how many calls of performSubmit the timer of the debounce hook may hold
MaxScheduled == 2

\* hooks/useDebounce(performSubmit, 300): a call of the debounced function
\* runs performSubmit once, later.  Whether the call replaces a timer that
\* is still running or is kept beside it is left open; the timers end with
\* the Review screen that set them.
ScheduledAfterCall(scheduled) ==
    {1} \cup {n \in {scheduled + 1} : n <= MaxScheduled}

\* a click on the submit button: Review.handleSubmit
handleSubmit ==
    /\ UserEvent
    /\ ReviewShown
    /\ ReviewHasButtons
    /\ ~isLoading
    /\ ~(isProcessing \/ isSubmittingRef)
    /\ debouncedSubmit' \in ScheduledAfterCall(debouncedSubmit)
    /\ lastEvent' = "handleSubmit"
    /\ UNCHANGED <<parsed, form, formValues, totalExcludingGift, effectPending,
                   currentStep, showReview, reviewData, submitted,
                   isProcessing, isSubmittingRef, inflight, sinkCalls,
                   onReviewSubmitResult>>

\* how the promise of onReviewSubmit settles once Home.handleSubmit has
\* returned or thrown: the catch block logs the error and returns
onReviewSubmitSettles(thrown) == IF thrown THEN "fulfilled" ELSE "fulfilled"

\* performSubmit past its guard: the two flags are set and onReviewSubmit
\* runs, with Home.handleSubmit up to the fetch it awaits
callOnReviewSubmit ==
    /\ isSubmittingRef' = TRUE
    /\ isProcessing' = TRUE
    /\ IF reviewData = null
       THEN /\ onReviewSubmitResult' = "fulfilled"
            /\ UNCHANGED <<submitted, inflight, sinkCalls>>
       ELSE IF form.formId = ""
            THEN /\ submitted' = TRUE
                 /\ onReviewSubmitResult' = onReviewSubmitSettles(FALSE)
                 /\ UNCHANGED <<inflight, sinkCalls>>
            ELSE LET body == [formData |-> Val(reviewData),
                              total |-> calculatedTotal(form.items, Val(reviewData))]
                 IN  /\ inflight' = Append(inflight, body)
                     /\ sinkCalls' = Append(sinkCalls, body)
                     /\ onReviewSubmitResult' = "pending"
                     /\ UNCHANGED submitted
    /\ lastEvent' = "performSubmit"

\* performSubmit guarded by the state of the render it was made in alone,
\* which may be the render before setIsProcessing(true)
performSubmitByState ==
    /\ debouncedSubmit > 0
    /\ debouncedSubmit' = debouncedSubmit - 1
    /\ \E rendered \in {isProcessing, FALSE} :
         IF rendered
         THEN /\ lastEvent' = "performSubmitReturned"
              /\ UNCHANGED <<isProcessing, isSubmittingRef, submitted, inflight,
                             sinkCalls, onReviewSubmitResult>>
         ELSE callOnReviewSubmit
    /\ UNCHANGED <<parsed, form, formValues, totalExcludingGift, effectPending,
                   currentStep, showReview, reviewData>>

\* the timer of the debounce hook fires: performSubmit
performSubmit ==
    /\ debouncedSubmit > 0
    /\ debouncedSubmit' = debouncedSubmit - 1
    /\ IF isProcessing \/ isSubmittingRef
       THEN /\ lastEvent' = "performSubmitReturned"
            /\ UNCHANGED <<isProcessing, isSubmittingRef, submitted, inflight,
                           sinkCalls, onReviewSubmitResult>>
       ELSE callOnReviewSubmit
    /\ UNCHANGED <<parsed, form, formValues, totalExcludingGift, effectPending,
                   currentStep, showReview, reviewData>>

\* the response of the submission route, with a failed request sent again
submitResponseRetry ==
    \E ok \in BOOLEAN :
        /\ inflight # <<>>
        /\ inflight' = (IF ok THEN Tail(inflight) ELSE inflight)
        /\ sinkCalls' = (IF ok THEN sinkCalls ELSE Append(sinkCalls, inflight[1]))
        /\ Len(sinkCalls) <= MaxScheduled
        /\ submitted' = (IF ok THEN TRUE ELSE submitted)
        /\ onReviewSubmitResult' = (IF ok THEN "fulfilled" ELSE "pending")
        /\ debouncedSubmit' = (IF ok THEN 0 ELSE debouncedSubmit)
        /\ lastEvent' = (IF ok THEN "submitResponse" ELSE "submitFailed")
        /\ UNCHANGED <<parsed, form, formValues, totalExcludingGift, effectPending,
                       currentStep, showReview, reviewData,
                       isProcessing, isSubmittingRef>>

\* the response of the submission route: Home.handleSubmit returns or
\* throws, onReviewSubmit settles, and performSubmit goes on after its
\* await.  The success screen replaces the Review screen.
submitResponse ==
    \E ok \in BOOLEAN :
        /\ inflight # <<>>
        /\ inflight' = Tail(inflight)
        /\ submitted' = (IF ok THEN TRUE ELSE submitted)
        /\ onReviewSubmitResult' = onReviewSubmitSettles(~ok)
        /\ IF onReviewSubmitSettles(~ok) = "rejected"
           THEN isProcessing' = FALSE /\ isSubmittingRef' = FALSE
           ELSE UNCHANGED <<isProcessing, isSubmittingRef>>
        /\ debouncedSubmit' = (IF ok THEN 0 ELSE debouncedSubmit)
        /\ lastEvent' = (IF ok THEN "submitResponse" ELSE "submitFailed")
        /\ UNCHANGED <<parsed, form, formValues, totalExcludingGift, effectPending,
                       currentStep, showReview, reviewData, sinkCalls>>

\* the Back button of the review screen (disabled while loading) or the
\* button of the "nothing selected" notice
onReviewCancel ==
    /\ UserEvent
    /\ ReviewShown
    /\ ReviewHasButtons => ~isLoading
    /\ showReview' = FALSE
    /\ reviewData' = null
    /\ currentStep' = totalFormSteps
    /\ debouncedSubmit' = 0
    /\ lastEvent' = "onReviewCancel"
    /\ UNCHANGED <<parsed, form, formValues, totalExcludingGift, effectPending, submitted,
                   isProcessing, isSubmittingRef, inflight, sinkCalls,
                   onReviewSubmitResult>>

(***************************************************************************)
(* The form as the respondent drives it                                    *)
(***************************************************************************)
Init ==
    /\ form \in Forms \cup {FormNoId}
    /\ formValues = InitialValues(form.items)
    /\ totalExcludingGift = TotalExcludingGift(form.items, formValues)
    /\ effectPending = TRUE
    /\ currentStep = 1
    /\ showReview = FALSE
    /\ reviewData = null
    /\ submitted = FALSE
    /\ isProcessing = FALSE
    /\ isSubmittingRef = FALSE
    /\ inflight = <<>>
    /\ debouncedSubmit = 0
    /\ onReviewSubmitResult = "none"
    /\ sinkCalls = <<>>
    /\ lastEvent = "mount"
    /\ parsed = NothingParsed

Next ==
    \/ ToggleCheckbox
    \/ SelectRadio
    \/ SelectDropdown
    \/ TypeText
    \/ EnforceGiftLimits
    \/ onFormNext
    \/ onStepBack
    \/ onReviewCancel
    \/ handleSubmit
    \/ performSubmit
    \/ submitResponse

Spec == Init /\ [][Next]_vars

(***************************************************************************)
(* The aggregator as a function of the answer set alone: watch() may hand  *)
(* it any value of its declared type under any field name, so every field  *)
(* is set to every kind of value, whether or not an input can produce it.  *)
(***************************************************************************)
\* how many fields hold an answer at once
MaxAnswered == 1

\* how long a list value may be
MaxListLen == 2

FalseText == <<"f", "a", "l", "s", "e">>

\* the option labels of the questions outside the gift sections
AggLabels(items) ==
    UNION {{e.question.options[k] : k \in 1..Len(e.question.options)} :
              e \in {x \in QuestionsOf(items) : ~isGiftSection(x.item)}}

AggEntries(items) == {<<>>, FalseText} \cup AggLabels(items)

ListsOver(S, n) == UNION {[1..k -> S] : k \in 0..n}

AggValues(items) ==
    {Str(text) : text \in AggEntries(items) \cup {<<" ">>}}
    \cup {Arr(list) : list \in ListsOver(AggEntries(items), MaxListLen)}
    \cup {Bool(TRUE), Bool(FALSE), Num(0), Num(2)}

\* the registered fields, a matrix cell of the first question and one of the
\* last (a gift section), a field of no question of the form and a field
\* whose name is not that of a question
AggFieldNames(items) ==
    {FieldName(e.question.questionId) : e \in QuestionsOf(items)}
    \cup {GridFieldName(items[1].questions[1].questionId, "0", "1"),
          GridFieldName(items[Len(items)].questions[1].questionId, "1", "0"),
          FieldName(<<"zz">>), <<"email">>}

Answered(values) == {n \in DOMAIN values : values[n] # Undefined}

AggInit ==
    /\ form \in Forms
    /\ formValues = [n \in AggFieldNames(form.items) |-> Undefined]
    /\ totalExcludingGift = TotalExcludingGift(form.items, formValues)
    /\ effectPending = FALSE
    /\ currentStep = 1
    /\ showReview = FALSE
    /\ reviewData = null
    /\ submitted = FALSE
    /\ isProcessing = FALSE
    /\ isSubmittingRef = FALSE
    /\ inflight = <<>>
    /\ debouncedSubmit = 0
    /\ onReviewSubmitResult = "none"
    /\ sinkCalls = <<>>
    /\ lastEvent = "mount"
    /\ parsed = NothingParsed

AggUnchanged ==
    UNCHANGED <<parsed, form, effectPending, currentStep, showReview, reviewData,
                submitted, isProcessing, isSubmittingRef, inflight, sinkCalls,
                debouncedSubmit, onReviewSubmitResult>>

\* one more field is answered and the memo is recomputed
SetAnswer ==
    /\ Cardinality(Answered(formValues)) < MaxAnswered
    /\ \E name \in DOMAIN formValues \ Answered(formValues) :
         \E value \in AggValues(form.items) :
           /\ formValues' = [formValues EXCEPT ![name] = value]
           /\ totalExcludingGift' = TotalExcludingGift(form.items, formValues')
           /\ lastEvent' = "SetAnswer"
           /\ AggUnchanged

\* the answer set is emptied (reset) and the memo is recomputed
ClearAnswers ==
    /\ Answered(formValues) # {}
    /\ formValues' = [n \in DOMAIN formValues |-> Undefined]
    /\ totalExcludingGift' = TotalExcludingGift(form.items, formValues')
    /\ lastEvent' = "ClearAnswers"
    /\ AggUnchanged

AggNext == SetAnswer \/ ClearAnswers

AggSpec == AggInit /\ [][AggNext]_vars

(***************************************************************************)
(* The aggregator on an answer set of the form to which a field the form   *)
(* did not register is added: the form's own fields hold nothing or a      *)
(* typical answer, the added field any value.                              *)
(***************************************************************************)
\* a field of no question of the form, and two names that are not of the
\* pattern question_<id>
StrayNames == {FieldName(<<"zz">>), <<"email">>, <<"question_">>}

\* the answer an input of the question produces for its first option
TypicalAnswer(question) ==
    IF question.qkind # "choice" THEN Str(<<"x">>)
    ELSE IF question.type = "CHECKBOX" /\ Len(question.options) > 1
         THEN Arr(<<question.options[1]>>)
         ELSE Str(question.options[1])

\* the answer sets in which each field of the form is unanswered or holds
\* its typical answer, and no other field is answered
StartAnswerSets(items) ==
    {[n \in {FieldName(e.question.questionId) : e \in QuestionsOf(items)}
              \cup StrayNames |->
         IF \E e \in given : n = FieldName(e.question.questionId)
         THEN TypicalAnswer((CHOOSE e \in given :
                                n = FieldName(e.question.questionId)).question)
         ELSE Undefined] : given \in SUBSET QuestionsOf(items)}

StrayInit ==
    /\ form \in Forms
    /\ formValues \in StartAnswerSets(form.items)
    /\ totalExcludingGift = TotalExcludingGift(form.items, formValues)
    /\ effectPending = FALSE
    /\ currentStep = 1
    /\ showReview = FALSE
    /\ reviewData = null
    /\ submitted = FALSE
    /\ isProcessing = FALSE
    /\ isSubmittingRef = FALSE
    /\ inflight = <<>>
    /\ debouncedSubmit = 0
    /\ onReviewSubmitResult = "none"
    /\ sinkCalls = <<>>
    /\ lastEvent = "mount"
    /\ parsed = NothingParsed

\* a field the form did not register gets a value, and the memo is recomputed
SetStray ==
    /\ \A n \in StrayNames : formValues[n] = Undefined
    /\ \E name \in StrayNames :
         \E value \in AggValues(form.items) :
           /\ formValues' = [formValues EXCEPT ![name] = value]
           /\ totalExcludingGift' = TotalExcludingGift(form.items, formValues')
           /\ lastEvent' = "SetStray"
           /\ AggUnchanged

\* the added field loses its value, and the memo is recomputed
ClearStray ==
    /\ \E n \in StrayNames : formValues[n] # Undefined
    /\ formValues' = [n \in DOMAIN formValues |->
                         IF n \in StrayNames THEN Undefined ELSE formValues[n]]
    /\ totalExcludingGift' = TotalExcludingGift(form.items, formValues')
    /\ lastEvent' = "ClearStray"
    /\ AggUnchanged

StrayNext == SetStray \/ ClearStray

StraySpec == StrayInit /\ [][StrayNext]_vars

(***************************************************************************)
(* getThresholds as a function of its label: the label is written one     *)
(* segment at a time and parsed again after each.                          *)
(***************************************************************************)
\* how many segments a label may hold
MaxSegments == 3

\* the texts of a segment: thresholds with and without the marker, with
\* white space, of several digits, of an amount already used, with both
\* patterns; a marker without an amount; an amount or a count of zero
SegmentTexts ==
    { <<"MAN", "2", "*", "1">>,
      <<"3", "*", "2">>,
      <<"MAN", " ", "1", "0", " ", "*", " ", "3">>,
      <<"2", "*", "4">>,
      <<"MAN", "*", "3">>,
      <<"0", "*", "1">>,
      <<"4", "*", "0">>,
      <<"5", "*", "1", "MAN", "1", "*", "2">> }

SeparatorCount(text) == Cardinality({i \in 1..Len(text) : text[i] \in Separators})

\* the segments a label holds: none for the absent or empty label
SegmentCount(text) == IF text = <<>> THEN 0 ELSE SeparatorCount(text) + 1

ParseInit ==
    /\ form = FormCheckbox
    /\ formValues = InitialValues(form.items)
    /\ totalExcludingGift = TotalExcludingGift(form.items, formValues)
    /\ effectPending = FALSE
    /\ currentStep = 1
    /\ showReview = FALSE
    /\ reviewData = null
    /\ submitted = FALSE
    /\ isProcessing = FALSE
    /\ isSubmittingRef = FALSE
    /\ inflight = <<>>
    /\ debouncedSubmit = 0
    /\ onReviewSubmitResult = "none"
    /\ sinkCalls = <<>>
    /\ lastEvent = "mount"
    /\ parsed = NothingParsed

ParseUnchanged ==
    UNCHANGED <<form, formValues, totalExcludingGift, effectPending, currentStep,
                showReview, reviewData, submitted, isProcessing, isSubmittingRef,
                inflight, sinkCalls, debouncedSubmit, onReviewSubmitResult>>

\* one more segment is written, after a separator when the label holds
\* text already, and the label is parsed
AppendSegment ==
    /\ SegmentCount(parsed.label) < MaxSegments
    /\ \E text \in SegmentTexts : \E separator \in Separators :
         LET label == IF parsed.label = <<>> THEN text
                      ELSE parsed.label \o <<separator>> \o text
         IN  /\ parsed' = ParseOf(label)
             /\ lastEvent' = "AppendSegment"
             /\ ParseUnchanged

\* the label is taken away, and the absent label is parsed
ClearLabel ==
    /\ parsed.label # <<>>
    /\ parsed' = NothingParsed
    /\ lastEvent' = "ClearLabel"
    /\ ParseUnchanged

ParseNext == AppendSegment \/ ClearLabel

ParseSpec == ParseInit /\ [][ParseNext]_vars

(***************************************************************************)
(* extractPrice as a function of its title: the title is written one      *)
(* character at a time and parsed again after each.                        *)
(***************************************************************************)
\* how many characters a title may hold
MaxTitleLen == 5

\* the characters of a title: the dollar sign, two digits, a letter
TitleChars == {"$", "3", "8", "x"}

AppendChar ==
    /\ Len(parsed.label) < MaxTitleLen
    /\ \E c \in TitleChars :
         /\ parsed' = ParseOf(Append(parsed.label, c))
         /\ lastEvent' = "AppendChar"
         /\ ParseUnchanged

PriceNext == AppendChar \/ ClearLabel

PriceSpec == ParseInit /\ [][PriceNext]_vars

(***************************************************************************)
(* The steps as a function of the form: the form is written one item at a  *)
(* time and split again after each.                                        *)
(***************************************************************************)
\* how many items a form may hold
MaxItems == 4

\* the items a form is written with, each with the ids of its place: a
\* priced question, a gift section, a section header, a section header
\* that carries a question, a text without a question, a page break
ItemsAt(place) ==
    LET id == ToString(place)
        question == <<Question(id, FALSE, "choice", "CHECKBOX", << <<"a">> >>)>>
        header == <<"STAR", "A", "QU", "STAR">>
    IN  { Item(id, <<"$", "1", "n">>, "questionItem", question, FALSE),
          Item(id, <<GIFT, "MAN", "1", "*", "1">>, "questionItem", question, FALSE),
          Item(id, header, "textItem", <<>>, FALSE),
          Item(id, header, "questionItem", question, FALSE),
          Item(id, <<"n">>, "textItem", <<>>, FALSE),
          Item(id, <<>>, "pageBreakItem", <<>>, FALSE) }

StepInit ==
    /\ form = [formId |-> "steps", items |-> <<>>]
    /\ formValues = InitialValues(form.items)
    /\ totalExcludingGift = 0
    /\ effectPending = FALSE
    /\ currentStep = 1
    /\ showReview = FALSE
    /\ reviewData = null
    /\ submitted = FALSE
    /\ isProcessing = FALSE
    /\ isSubmittingRef = FALSE
    /\ inflight = <<>>
    /\ debouncedSubmit = 0
    /\ onReviewSubmitResult = "none"
    /\ sinkCalls = <<>>
    /\ lastEvent = "mount"
    /\ parsed = NothingParsed

StepUnchanged ==
    UNCHANGED <<parsed, totalExcludingGift, effectPending, currentStep,
                showReview, reviewData, submitted, isProcessing, isSubmittingRef,
                inflight, sinkCalls, debouncedSubmit, onReviewSubmitResult>>

\* one more item is written at the end of the form
AppendItem ==
    /\ Len(form.items) < MaxItems
    /\ \E item \in ItemsAt(Len(form.items) + 1) :
         /\ form' = [form EXCEPT !.items = Append(@, item)]
         /\ formValues' = InitialValues(form'.items)
         /\ lastEvent' = "AppendItem"
         /\ StepUnchanged

\* the items are taken away
ClearItems ==
    /\ form.items # <<>>
    /\ form' = [form EXCEPT !.items = <<>>]
    /\ formValues' = InitialValues(form'.items)
    /\ lastEvent' = "ClearItems"
    /\ StepUnchanged

StepNext == AppendItem \/ ClearItems

StepSpec == StepInit /\ [][StepNext]_vars

(***************************************************************************)
(* What the properties below are stated with: the schema read directly,    *)
(* not through the indices the form builds from it.                        *)
(***************************************************************************)
\* the ids of all the questions of the gift sections of the form
GiftItemQuestionIds(items) ==
    {e.question.questionId : e \in {x \in QuestionsOf(items) : isGiftSection(x.item)}}

\* the field names a question outside every gift section
NonGiftField(items, name) ==
    /\ questionIdMatch(name) # null
    /\ Val(questionIdMatch(name)) \notin GiftItemQuestionIds(items)

\* text is the label of an option that carries a price
HasOptionPrice(items, text) ==
    \E e \in QuestionsOf(items) :
        /\ e.question.qkind = "choice"
        /\ InList(e.question.options, text)
        /\ extractPrice(text) # null

\* the title of the item of question questionId carries a price
HasQuestionPrice(items, questionId) ==
    \E e \in QuestionsOf(items) :
        e.question.questionId = questionId /\ extractPrice(e.item.title) # null

QuestionLevelPrice(items, questionId) ==
    Val(extractPrice((CHOOSE e \in QuestionsOf(items) :
                         e.question.questionId = questionId).item.title))

\* option price, else question-level price, else nothing
ExpectedValuePrice(items, text, questionId) ==
    IF HasOptionPrice(items, text) THEN Val(extractPrice(text))
    ELSE IF HasQuestionPrice(items, questionId)
         THEN QuestionLevelPrice(items, questionId)
         ELSE 0

\* the sum of the rule over the entries that are not empty and not "false"
RECURSIVE ExpectedListPrice(_, _, _)
ExpectedListPrice(items, list, questionId) ==
    IF list = <<>> THEN 0
    ELSE (IF Head(list) # <<>> /\ Head(list) # FalseText
          THEN ExpectedValuePrice(items, Head(list), questionId) ELSE 0)
         + ExpectedListPrice(items, Tail(list), questionId)

\* between two answer sets, field name alone changed, from unanswered
FreshAnswer(name, old, new) ==
    /\ old[name] = Undefined
    /\ new[name] # Undefined
    /\ \A n \in DOMAIN old : n # name => new[n] = old[n]

\* how many selections a field value holds
SelectionCount(value) ==
    IF value.t = "arr" THEN Len(value.v)
    ELSE IF value.t = "str" /\ trim(value.v) # <<>> THEN 1
    ELSE 0

\* the allowance of the gift section of item at the current total
AllowanceOf(item) ==
    calculateMaxGiftSelections(totalExcludingGift, getThresholds(item.title))

Ascending(thresholds) ==
    \A i \in 1..(Len(thresholds) - 1) :
        thresholds[i].amount <= thresholds[i + 1].amount

(***************************************************************************)
(* Properties of the gift allowance                                        *)
(***************************************************************************)
\* C1: for the parsed (ascending) threshold list of every gift section and
\* the running total, calculateMaxGiftSelections is the gift count of the
\* highest-amount threshold whose amount is at most the total, and 0 when
\* there is none (in particular when the list is empty): a step function
\* of the total.
MaxSelectionsIsHighestReached ==
    \A questionId \in DOMAIN giftSections :
        LET thresholds == giftSections[questionId].thresholds
            reached    == {i \in 1..Len(thresholds) :
                              thresholds[i].amount <= totalExcludingGift}
            result     == calculateMaxGiftSelections(totalExcludingGift, thresholds)
        IN  Ascending(thresholds) =>
              IF reached = {} THEN result = 0
              ELSE \E i \in reached :
                      /\ \A j \in reached :
                            thresholds[j].amount <= thresholds[i].amount
                      /\ result = thresholds[i].gifts

\* the total lies between two tiers of a gift section and the allowance is
\* the lower tier's count
BetweenTwoTiers ==
    /\ ~effectPending
    /\ \E questionId \in DOMAIN giftSections :
          LET thresholds == giftSections[questionId].thresholds
          IN  /\ Len(thresholds) >= 2
              /\ thresholds[1].amount <= totalExcludingGift
              /\ totalExcludingGift < thresholds[2].amount
              /\ thresholds[1].gifts # thresholds[2].gifts
              /\ calculateMaxGiftSelections(totalExcludingGift, thresholds)
                    = thresholds[1].gifts

\* C2: once the enforcement has run to completion, no gift section holds
\* more selections than calculateMaxGiftSelections allows it at the total.
GiftSelectionsWithinMax ==
    ~effectPending =>
        \A questionId \in DOMAIN giftSections :
            SelectionCount(formValues[FieldName(questionId)])
                <= calculateMaxGiftSelections(totalExcludingGift,
                                              giftSections[questionId].thresholds)

\* C3: a run of the enforcement leaves, in the field of every gift section,
\* the first max entries of a selection list longer than max, in their
\* order, and any other value as it was.
EnforceKeepsFirstMax ==
    [][effectPending =>
        \A questionId \in DOMAIN giftSections :
            LET name == FieldName(questionId)
                max  == calculateMaxGiftSelections(totalExcludingGift,
                            giftSections[questionId].thresholds)
            IN  IF formValues[name].t = "arr" /\ Len(formValues[name].v) > max
                THEN /\ formValues'[name].t = "arr"
                     /\ Len(formValues'[name].v) = max
                     /\ \A i \in 1..max :
                           formValues'[name].v[i] = formValues[name].v[i]
                ELSE formValues'[name] = formValues[name]]_vars

\* the enforcement has just cut a list of selections down to a non-empty one
TrimmedToAllowance ==
    /\ lastEvent = "setValue"
    /\ \E questionId \in DOMAIN giftSections :
          /\ formValues[FieldName(questionId)].t = "arr"
          /\ Len(formValues[FieldName(questionId)].v) >= 1
          /\ Len(formValues[FieldName(questionId)].v)
                = calculateMaxGiftSelections(totalExcludingGift,
                                             giftSections[questionId].thresholds)

\* the answer set with the fields of all the questions of gift sections removed
GiftFieldsRemoved(items, values) ==
    [n \in DOMAIN values |->
        IF NonGiftField(items, n) \/ questionIdMatch(n) = null
        THEN values[n] ELSE Undefined]

\* C4: the total is the total of the answer set without the fields of the
\* gift sections, those of each sub-question of a gift question group
\* included.
TotalIgnoresGiftSections ==
    totalExcludingGift
        = TotalExcludingGift(form.items, GiftFieldsRemoved(form.items, formValues))

\* option is among the selections the field value holds
OptionSelected(value, option) ==
    \/ value.t = "arr" /\ InList(value.v, option)
    \/ value = Str(option)

\* the respondent can act on the option of the input on screen
Operable(input, option) ==
    IF input.question.type = "DROP_DOWN" THEN TRUE ELSE CanUse(input, option)

\* the choice inputs of gift sections on screen
GiftInputsShown ==
    {input \in InputsShown :
        isGiftSection(input.item) /\ input.question.qkind = "choice"}

\* C6: when the respondent can act, in every gift section on screen an
\* option that is not selected cannot be selected once the section's
\* selection count equals its allowance, and a selected option stays
\* operable.
SelectionTimeGuard ==
    ~effectPending =>
        \A input \in GiftInputsShown :
            \A o \in 1..Len(input.question.options) :
                LET option == input.question.options[o]
                    value  == formValues[FieldName(input.question.questionId)]
                IN  IF OptionSelected(value, option)
                    THEN Operable(input, option)
                    ELSE SelectionCount(value) = AllowanceOf(input.item)
                            => ~Operable(input, option)

\* ChoiceQuestion renders the item, and with it the notice of a gift section
RendersChoiceQuestion(item) ==
    /\ Len(item.questions) >= 1
    /\ ~RendersAsQuestionGroup(item)
    /\ item.questions[1].qkind = "choice"

\* the notice GiftSectionInfo shows for the gift section of item
NoticeOf(item) ==
    GiftSectionInfo(thresholdsOf(item), totalExcludingGift,
                    maxGiftSelections(item, formValues, totalExcludingGift),
                    currentGiftCount(item, formValues))

GiftItems == {form.items[i] : i \in {k \in 1..Len(form.items) :
                                        /\ isGiftSection(form.items[k])
                                        /\ Len(form.items[k].questions) >= 1}}

SubmittedTotalIsAggregatorTotal ==
    \A i \in 1..Len(sinkCalls) :
        sinkCalls[i].total
            = TotalExcludingGift(form.items, sinkCalls[i].formData)

(***************************************************************************)
(* Properties of the pricing of one answer                                 *)
(***************************************************************************)
\* C5: a non-blank string answered in a field outside the gift sections adds
\* to the total the price of the option it names when that option carries
\* one, else the price in the title of the field's question, else 0.
StringValuePricing ==
    [][\A name \in DOMAIN formValues :
          ( /\ FreshAnswer(name, formValues, formValues')
            /\ NonGiftField(form.items, name)
            /\ formValues'[name].t = "str"
            /\ trim(formValues'[name].v) # <<>> )
          => totalExcludingGift'
                = totalExcludingGift
                  + ExpectedValuePrice(form.items, formValues'[name].v,
                                       Val(questionIdMatch(name)))]_vars

\* a string was answered that names a priced option of a question whose
\* title carries another price, and the total is the option's price
OptionPriceOverridesQuestionPrice ==
    /\ lastEvent = "SetAnswer"
    /\ \E name \in DOMAIN formValues :
          /\ Answered(formValues) = {name}
          /\ NonGiftField(form.items, name)
          /\ formValues[name].t = "str"
          /\ HasOptionPrice(form.items, formValues[name].v)
          /\ HasQuestionPrice(form.items, Val(questionIdMatch(name)))
          /\ QuestionLevelPrice(form.items, Val(questionIdMatch(name)))
                # Val(extractPrice(formValues[name].v))
          /\ totalExcludingGift = Val(extractPrice(formValues[name].v))

\* C9: a list answered in a field outside the gift sections adds the sum of
\* the per-value price of each entry that is not empty and not "false",
\* each such entry counted once.
ListEntriesPricedOnce ==
    [][\A name \in DOMAIN formValues :
          ( /\ FreshAnswer(name, formValues, formValues')
            /\ NonGiftField(form.items, name)
            /\ formValues'[name].t = "arr" )
          => totalExcludingGift'
                = totalExcludingGift
                  + ExpectedListPrice(form.items, formValues'[name].v,
                                      Val(questionIdMatch(name)))]_vars

\* the price in the title of the field's question, if any
ExpectedQuestionPrice(items, name) ==
    IF HasQuestionPrice(items, Val(questionIdMatch(name)))
    THEN QuestionLevelPrice(items, Val(questionIdMatch(name))) ELSE 0

\* C10, as written: a boolean or a number answered in a field outside the
\* gift sections adds the price in the title of the field's question, and
\* 0 when the title carries none.
ScalarAddsQuestionPrice ==
    [][\A name \in DOMAIN formValues :
          ( /\ FreshAnswer(name, formValues, formValues')
            /\ NonGiftField(form.items, name)
            /\ formValues'[name].t \in {"bool", "num"} )
          => totalExcludingGift'
                = totalExcludingGift + ExpectedQuestionPrice(form.items, name)]_vars

\* C10, amended: true or a number other than 0 answered in a field outside
\* the gift sections adds the price in the title of the field's question
\* (0 when the title carries none); false or the number 0 adds nothing.
TruthyScalarAddsQuestionPrice ==
    [][\A name \in DOMAIN formValues :
          ( /\ FreshAnswer(name, formValues, formValues')
            /\ NonGiftField(form.items, name)
            /\ formValues'[name].t \in {"bool", "num"} )
          => totalExcludingGift'
                = totalExcludingGift
                  + (IF Truthy(formValues'[name])
                     THEN ExpectedQuestionPrice(form.items, name) ELSE 0)]_vars

\* true was answered for a question whose title carries a price, and the
\* total is that price
TrueAddsQuestionPrice ==
    /\ lastEvent = "SetAnswer"
    /\ \E name \in DOMAIN formValues :
          /\ Answered(formValues) = {name}
          /\ NonGiftField(form.items, name)
          /\ formValues[name] = Bool(TRUE)
          /\ ExpectedQuestionPrice(form.items, name) > 0
          /\ totalExcludingGift = ExpectedQuestionPrice(form.items, name)

(***************************************************************************)
(* Properties of the attribution of a field to a question                  *)
(***************************************************************************)
\* name is the field of a matrix cell of question questionId
IsGridCellOf(name, questionId) ==
    LET n == Len(questionId) + 1
    IN  /\ Len(name) = n + 4
        /\ SubSeq(name, 1, n) = FieldName(questionId)
        /\ name[n + 1] = "_row_" /\ name[n + 2] \in Digits
        /\ name[n + 3] = "_col_" /\ name[n + 4] \in Digits

QuestionIds(items) == {e.question.questionId : e \in QuestionsOf(items)}

\* the answer set with the answer of field from given to field to instead
MovedAnswer(values, from, to) ==
    [n \in (DOMAIN values) \cup {to} |->
        IF n = from THEN Undefined
        ELSE IF n = to THEN values[from]
        ELSE values[n]]

\* C11: the field question_<id> and every matrix cell field
\* question_<id>_row_<r>_col_<c> are attributed to question <id>, and the
\* total is what it would be had the cell's answer been given to
\* question_<id>: the cell is priced, or left out as a gift, like <id>.
GridCellPricedAsQuestion ==
    \A questionId \in QuestionIds(form.items) :
        /\ questionIdMatch(FieldName(questionId)) = Some(questionId)
        /\ \A name \in DOMAIN formValues :
              IsGridCellOf(name, questionId) =>
                /\ questionIdMatch(name) = Some(questionId)
                /\ formValues[FieldName(questionId)] = Undefined =>
                      totalExcludingGift
                        = TotalExcludingGift(form.items,
                              MovedAnswer(formValues, name, FieldName(questionId)))

\* a matrix cell of a question whose title carries a price holds an answer
\* that names no priced option, and the total is the price of the title
GridCellAddsQuestionPrice ==
    /\ lastEvent = "SetAnswer"
    /\ \E questionId \in QuestionIds(form.items) :
          \E name \in DOMAIN formValues :
              /\ IsGridCellOf(name, questionId)
              /\ Answered(formValues) = {name}
              /\ formValues[name].t = "str"
              /\ ~HasOptionPrice(form.items, formValues[name].v)
              /\ HasQuestionPrice(form.items, questionId)
              /\ totalExcludingGift = QuestionLevelPrice(form.items, questionId)
              /\ totalExcludingGift > 0

\* name is of the pattern question_<id>[_row_<r>_col_<c>], <id> not empty
IsQuestionFieldName(name) == Len(name) >= 2 /\ name[1] = "question_"

\* the answer set without the fields in names
WithoutFields(values, names) ==
    [n \in (DOMAIN values) \ names |-> values[n]]

\* C12: a field whose name is not of the pattern question_<id> adds nothing
\* and does not end the computation: the total is the total of the answer
\* set without such fields.
UnmatchedFieldIgnored ==
    totalExcludingGift
        = TotalExcludingGift(form.items,
              WithoutFields(formValues,
                  {n \in DOMAIN formValues : ~IsQuestionFieldName(n)}))

\* a field with such a name holds the label of a priced option while a
\* priced field of the form is answered, and the total is not 0
UnmatchedFieldBesidePricedAnswer ==
    /\ lastEvent = "SetStray"
    /\ \E name \in DOMAIN formValues :
          /\ ~IsQuestionFieldName(name)
          /\ formValues[name].t = "str"
          /\ HasOptionPrice(form.items, formValues[name].v)
    /\ \E name \in DOMAIN formValues :
          /\ NonGiftField(form.items, name)
          /\ formValues[name] # Undefined
    /\ totalExcludingGift > 0

\* name is a question field whose id is that of no question of the form
IsUnknownQuestionField(items, name) ==
    /\ questionIdMatch(name) # null
    /\ Val(questionIdMatch(name)) \notin QuestionIds(items)

\* C13: a field whose question id is that of no question of the form adds
\* nothing, whatever its value: the total is the total of the answer set
\* without such fields.
UnknownQuestionFieldIgnored ==
    totalExcludingGift
        = TotalExcludingGift(form.items,
              WithoutFields(formValues,
                  {n \in DOMAIN formValues :
                      IsUnknownQuestionField(form.items, n)}))

(***************************************************************************)
(* Properties of the frame of the enforcement                              *)
(***************************************************************************)
\* the fields of the questions of the gift section of item
SectionFieldNames(item) ==
    {FieldName(item.questions[j].questionId) : j \in 1..Len(item.questions)}

GiftFieldNames == UNION {SectionFieldNames(item) : item \in GiftItems}

\* the allowance of the gift section of item at the given total
AllowanceAt(item, total) ==
    calculateMaxGiftSelections(total, getThresholds(item.title))

\* C14: a step that changes the selections of one gift section leaves the
\* allowance of every other gift section as it was, and leaves each
\* selection list of another section as it was or cut to that section's
\* own allowance.
GiftSectionsIndependent ==
    [][\A s \in GiftItems : \A t \in GiftItems \ {s} :
          (\E n \in SectionFieldNames(s) : formValues'[n] # formValues[n])
          => /\ AllowanceAt(t, totalExcludingGift')
                   = AllowanceAt(t, totalExcludingGift)
             /\ \A n \in SectionFieldNames(t) :
                   \/ formValues'[n] = formValues[n]
                   \/ /\ formValues[n].t = "arr"
                      /\ Len(formValues[n].v) > AllowanceAt(t, totalExcludingGift)
                      /\ formValues'[n]
                            = Arr(SubSeq(formValues[n].v, 1,
                                         AllowanceAt(t, totalExcludingGift)))]_vars

\* C15: a step that changes a field of a gift section (a selection, a
\* deselection, a trim) leaves the total and every other field unchanged.
NoFeedbackFromGifts ==
    [][(\E n \in GiftFieldNames : formValues'[n] # formValues[n])
       => /\ totalExcludingGift' = totalExcludingGift
          /\ \A n \in (DOMAIN formValues) \ GiftFieldNames :
                formValues'[n] = formValues[n]]_vars

(***************************************************************************)
(* Properties of the total as a function                                   *)
(***************************************************************************)
\* the orders in which the fields in names can be visited
Orders(names) ==
    {o \in [1..Cardinality(names) -> names] :
        \A i, j \in 1..Cardinality(names) : i # j => o[i] # o[j]}

\* what the fields add, summed in the given order from position i on
RECURSIVE SumInOrder(_, _, _, _)
SumInOrder(order, i, items, values) ==
    IF i > Len(order) THEN 0
    ELSE FieldPrice(order[i], values[order[i]], Memo[items].giftSections,
                    Memo[items].questionPriceMap, Memo[items].optionPriceMap)
         + SumInOrder(order, i + 1, items, values)

\* C16: in every state the form reaches, whatever the history of
\* selections, deselections, trims and navigation behind it, the total is
\* the sum of what each field of the current answer set adds under the
\* indices of the schema, in whichever order the fields are visited.
TotalIsFunctionOfAnswers ==
    \A order \in Orders(DOMAIN formValues) :
        totalExcludingGift = SumInOrder(order, 1, form.items, formValues)

\* an answer set reached by selecting and deselecting: one field holds the
\* empty list again while another holds a priced answer
SameAnswersAfterDeselection ==
    /\ lastEvent = "ToggleCheckbox"
    /\ totalExcludingGift > 0
    /\ \E n \in DOMAIN formValues : formValues[n] = Arr(<<>>)
    /\ \E n \in DOMAIN formValues :
          /\ NonGiftField(form.items, n)
          /\ formValues[n].t = "arr" /\ Len(formValues[n].v) >= 1

(***************************************************************************)
(* Properties of getThresholds.  The threshold a segment holds is found    *)
(* here from its asterisks: the digits that end, white space apart, just   *)
(* before an asterisk and the digits that begin, white space apart, just   *)
(* after it.                                                               *)
(***************************************************************************)
\* the positions of the ideographic, ASCII and full-width commas
CommaPositions(text) ==
    {i \in 1..Len(text) : text[i] \in {"IDEO_COMMA", ",", "FW_COMMA"}}

\* the position of the k-th comma of text
NthComma(text, k) ==
    CHOOSE i \in CommaPositions(text) :
        Cardinality({j \in CommaPositions(text) : j < i}) = k - 1

\* the segments of a label that is not empty: the text between its commas
SegmentsOf(text) ==
    LET n == Cardinality(CommaPositions(text))
    IN  [k \in 1..(n + 1) |->
            SubSeq(text,
                   IF k = 1 THEN 1 ELSE NthComma(text, k - 1) + 1,
                   IF k = n + 1 THEN Len(text) ELSE NthComma(text, k) - 1)]

\* the first position from i rightwards that holds no token of S
SkipRight(text, i, S) ==
    CHOOSE k \in i..(Len(text) + 1) :
        /\ k = Len(text) + 1 \/ text[k] \notin S
        /\ \A j \in i..(k - 1) : text[j] \in S

\* the first position from i leftwards that holds no token of S, or 0
SkipLeft(text, i, S) ==
    CHOOSE k \in 0..i :
        /\ k = 0 \/ text[k] \notin S
        /\ \A j \in (k + 1)..i : text[j] \in S

\* the number written by the digits text[a .. b]
RECURSIVE NumberFrom(_, _, _, _)
NumberFrom(text, a, b, acc) ==
    IF a > b THEN acc
    ELSE NumberFrom(text, a + 1, b, acc * 10 + DigitVal(text[a]))

\* digits stand on both sides of the asterisk at position star
ThresholdAround(text, star) ==
    LET last  == SkipLeft(text, star - 1, {" "})
        first == SkipRight(text, star + 1, {" "})
    IN  /\ last >= 1 /\ text[last] \in Digits
        /\ first <= Len(text) /\ text[first] \in Digits

\* ... and the marker stands before those of the left side
MarkedThresholdAround(text, star) ==
    /\ ThresholdAround(text, star)
    /\ LET last   == SkipLeft(text, star - 1, {" "})
           marker == SkipLeft(text, SkipLeft(text, last, Digits), {" "})
       IN  marker >= 1 /\ text[marker] = "MAN"

PairAround(text, star) ==
    LET last  == SkipLeft(text, star - 1, {" "})
        first == SkipRight(text, star + 1, {" "})
    IN  [amount |-> NumberFrom(text, SkipLeft(text, last, Digits) + 1, last, 0),
         gifts  |-> NumberFrom(text, first, SkipRight(text, first, Digits) - 1, 0)]

Least(S) == CHOOSE x \in S : \A y \in S : x <= y

\* the pair a segment holds, as a list of at most one pair: that of its
\* first threshold with the marker, else that of its first threshold
PairOfSegment(text) ==
    LET stars  == {i \in 1..Len(text) : text[i] = "*"}
        marked == {i \in stars : MarkedThresholdAround(text, i)}
        bare   == {i \in stars : ThresholdAround(text, i)}
    IN  IF marked # {} THEN <<PairAround(text, Least(marked))>>
        ELSE IF bare # {} THEN <<PairAround(text, Least(bare))>>
        ELSE <<>>

\* ... kept only when both its integers are positive
ValidPairOfSegment(text) ==
    LET pair == PairOfSegment(text)
    IN  IF pair # <<>> /\ pair[1].amount > 0 /\ pair[1].gifts > 0
        THEN pair ELSE <<>>

RECURSIVE ConcatValidPairs(_, _)
ConcatValidPairs(segments, k) ==
    IF k > Len(segments) THEN <<>>
    ELSE ValidPairOfSegment(segments[k]) \o ConcatValidPairs(segments, k + 1)

\* the valid pairs of a label in the order of its text
ValidPairs(text) ==
    IF text = <<>> THEN <<>> ELSE ConcatValidPairs(SegmentsOf(text), 1)

Occurrences(list, x) == Cardinality({i \in 1..Len(list) : list[i] = x})

\* two lists hold the same elements, each as many times
SameElements(a, b) ==
    /\ Len(a) = Len(b)
    /\ \A i \in 1..Len(a) : Occurrences(a, a[i]) = Occurrences(b, a[i])

\* the pairs of list whose amount is amount, in their order
WithAmount(list, amount) ==
    LET HasAmount(pair) == pair.amount = amount
    IN  SelectSeq(list, HasAmount)

\* C17: for every label the pairs getThresholds returns are in ascending
\* order of amount, whatever their order in the text.
ThresholdsAscending == Ascending(parsed.thresholds)

\* a label whose three thresholds are not written in ascending order
UnsortedTextSorted ==
    /\ lastEvent = "AppendSegment"
    /\ Len(parsed.thresholds) = 3
    /\ ~Ascending(ValidPairs(parsed.label))
    /\ parsed.thresholds[1].amount < parsed.thresholds[2].amount
    /\ parsed.thresholds[2].amount < parsed.thresholds[3].amount

\* C18: getThresholds returns exactly the pairs of the segments that hold
\* a threshold with two positive integers, each once per such segment;
\* every other segment adds nothing, and the absent, the empty and the
\* all-invalid label give the empty list.
OnlyValidPairsKept ==
    /\ SameElements(parsed.thresholds, ValidPairs(parsed.label))
    /\ (\A k \in 1..SegmentCount(parsed.label) :
            ValidPairOfSegment(SegmentsOf(parsed.label)[k]) = <<>>)
          => parsed.thresholds = <<>>

\* a label that mixes a valid threshold with a segment that matches no
\* pattern and one whose pair has a zero
MixedLabelKeepsValidPairs ==
    /\ lastEvent = "AppendSegment"
    /\ SegmentCount(parsed.label) = 3
    /\ \E k \in 1..3 : /\ PairOfSegment(SegmentsOf(parsed.label)[k]) = <<>>
                        /\ SegmentsOf(parsed.label)[k] # <<>>
    /\ \E k \in 1..3 : /\ PairOfSegment(SegmentsOf(parsed.label)[k]) # <<>>
                        /\ ValidPairOfSegment(SegmentsOf(parsed.label)[k]) = <<>>
    /\ Len(parsed.thresholds) = 1

\* C19: the label is split at each of the three commas; each segment gives
\* at most one pair, that of the marker pattern when the segment matches
\* it and else that of the pattern without the marker; the result holds
\* no more pairs than the label has segments.
SegmentRule ==
    parsed.label # <<>> =>
        /\ split(parsed.label, 1, <<>>) = SegmentsOf(parsed.label)
        /\ Len(parsed.thresholds) <= SegmentCount(parsed.label)
        /\ \A k \in 1..SegmentCount(parsed.label) :
              LET part == SegmentsOf(parsed.label)[k]
              IN  /\ Len(PartThreshold(part)) <= 1
                  /\ PartThreshold(part) = ValidPairOfSegment(part)

\* three thresholds of which only the first has the marker, after two
\* different commas
LaterSegmentsWithoutMarker ==
    /\ lastEvent = "AppendSegment"
    /\ SegmentCount(parsed.label) = 3
    /\ Len(parsed.thresholds) = 3
    /\ Cardinality({parsed.label[i] : i \in CommaPositions(parsed.label)}) = 2
    /\ {i \in 1..Len(parsed.label) : parsed.label[i] = "MAN"} = {1}

\* C20: no pair is dropped for having the amount of another: the result
\* has as many pairs as the label has valid ones, and the pairs of one
\* amount stand next to each other in the order of the text.
EqualAmountsKeptInTextOrder ==
    /\ Len(parsed.thresholds) = Len(ValidPairs(parsed.label))
    /\ \A i \in 1..Len(parsed.thresholds) :
          WithAmount(parsed.thresholds, parsed.thresholds[i].amount)
              = WithAmount(ValidPairs(parsed.label), parsed.thresholds[i].amount)
    /\ \A i, j \in 1..Len(parsed.thresholds) :
          (i < j /\ parsed.thresholds[i].amount = parsed.thresholds[j].amount)
          => \A k \in i..j :
                parsed.thresholds[k].amount = parsed.thresholds[i].amount

\* two segments of one amount and different gift counts, written after a
\* higher threshold: both are returned, first the one written first
EqualAmountsBothKept ==
    /\ lastEvent = "AppendSegment"
    /\ Len(parsed.thresholds) = 3
    /\ ValidPairs(parsed.label)[1].amount > ValidPairs(parsed.label)[2].amount
    /\ parsed.thresholds[1].amount = parsed.thresholds[2].amount
    /\ parsed.thresholds[1].gifts > parsed.thresholds[2].gifts
    /\ parsed.thresholds[1] = ValidPairs(parsed.label)[2]
    /\ parsed.thresholds[2] = ValidPairs(parsed.label)[3]

\* the positions of the dollar signs directly followed by a digit
PricedDollars(text) ==
    {i \in 1..(Len(text) - 1) : text[i] = "$" /\ text[i + 1] \in Digits}

\* C21: the price of a label is the number written by the digits right
\* after its first dollar sign that a digit follows, and no price (not a
\* failure) for the absent or empty label and the label without one.
PriceIsFirstDollarDigits ==
    IF PricedDollars(parsed.label) = {}
    THEN parsed.price = null
    ELSE LET first == Least(PricedDollars(parsed.label)) + 1
             last  == SkipRight(parsed.label, first, Digits) - 1
         IN  parsed.price = Some(NumberFrom(parsed.label, first, last, 0))

\* a title with two prices, the second one higher: the first is returned
FirstOfTwoPrices ==
    /\ lastEvent = "AppendChar"
    /\ Cardinality(PricedDollars(parsed.label)) = 2
    /\ parsed.label[Len(parsed.label)] = "8"
    /\ parsed.price = Some(3)

\* C22: the submission route is called once for a confirmed review: by a
\* run of performSubmit that a click scheduled, while the review is shown
\* with its data and no call was made before; the step in which a call
\* fails sends nothing again and leaves no request waiting.
FireOnce ==
    [][/\ sinkCalls' # sinkCalls
          => /\ sinkCalls = <<>>
             /\ Len(sinkCalls') = 1
             /\ lastEvent' = "performSubmit"
             /\ debouncedSubmit' = debouncedSubmit - 1
             /\ ReviewShown /\ reviewData # null
       /\ lastEvent' = "submitFailed"
          => sinkCalls' = sinkCalls /\ inflight' = <<>>]_vars

\* after a failed call a run of performSubmit that was still scheduled
\* has returned without calling the route again
NoCallAfterFailure ==
    /\ lastEvent = "performSubmitReturned"
    /\ Len(sinkCalls) = 1
    /\ inflight = <<>>
    /\ ~submitted
    /\ ReviewShown

\* C23: a failure of the submission route is reported upward: once the
\* call has failed, the promise of onReviewSubmit is rejected with the
\* error instead of being fulfilled.
SinkFailureReportedUpward ==
    lastEvent = "submitFailed" => onReviewSubmitResult = "rejected"

\* C24: submitted becomes true only in the step in which the submission
\* route accepts a request sent from the review screen with its data; the
\* step in which the request fails leaves submitted false and the review
\* on screen.
SuccessOnlyAfterSinkAccepted ==
    [][/\ (submitted' /\ ~submitted)
          => /\ ReviewShown /\ reviewData # null
             /\ inflight # <<>>
             /\ lastEvent' = "submitResponse"
       /\ lastEvent' = "submitFailed"
          => ~submitted' /\ showReview' /\ reviewData' # null]_vars

ReviewEnabledWhenNothingInFlight ==
    (ReviewShown /\ ReviewHasButtons /\ inflight = <<>>)
        => ~isLoading /\ ~isSubmittingRef

\* C27: the run of the enforcement that follows a trim writes nothing: it
\* is the next step, leaves the answers and the total as they are and
\* schedules no further run, so one change of the total costs each gift
\* section at most one write.
EnforcementQuiesces ==
    [][lastEvent = "setValue"
          => /\ lastEvent' = "EnforceGiftLimits"
             /\ formValues' = formValues
             /\ totalExcludingGift' = totalExcludingGift
             /\ ~effectPending']_vars

\* a trim has just emptied the list of a gift section whose allowance fell
\* to zero, and the effect is scheduled to run again
TrimmedAndScheduledAgain ==
    /\ lastEvent = "setValue"
    /\ effectPending
    /\ \E questionId \in DOMAIN giftSections :
          /\ formValues[FieldName(questionId)] = Arr(<<>>)
          /\ calculateMaxGiftSelections(totalExcludingGift,
                                        giftSections[questionId].thresholds) = 0

\* C28: whenever review data is held (the review screen or the success
\* screen is shown), the total shown with the selected products is the
\* aggregator's total of the same answers.
ShownTotalIsOrderTotal ==
    reviewData # null
        => productsTotal = TotalExcludingGift(form.items, Val(reviewData))

\* C29: the current step is always one of the form's steps; the review is
\* shown only at the last step, and it opens only by the Next button on
\* the last step, with no required input of that step empty, taking the
\* answers as review data; a Next that finds a required input of the step
\* empty leaves step, review flag and review data as they are.
NavigationInvariant ==
    [][/\ currentStep \in 1..totalFormSteps
       /\ currentStep' \in 1..totalFormSteps
       /\ showReview => currentStep = totalFormSteps
       /\ showReview' => currentStep' = totalFormSteps
       /\ (showReview' /\ ~showReview)
          => /\ lastEvent' = "onFormNext"
             /\ currentStep = totalFormSteps
             /\ ~\E input \in InputsShown : RequiredEmpty(input.question)
             /\ reviewData' = Some(formValues)
       /\ (lastEvent' = "onFormNext"
             /\ \E input \in InputsShown : RequiredEmpty(input.question))
          => UNCHANGED <<currentStep, showReview, reviewData>>]_vars

\* the review of a form of several steps with a required question has
\* just been opened from the last step
ReviewEnteredFromLastStep ==
    /\ lastEvent = "onFormNext"
    /\ showReview
    /\ reviewData = Some(formValues)
    /\ totalFormSteps >= 2
    /\ currentStep = totalFormSteps
    /\ \E e \in QuestionsOf(form.items) : e.question.required

\* the item holds a question or a group of questions
CarriesQuestion(item) ==
    (item.kind = "questionItem" /\ item.questions # <<>>)
        \/ item.kind = "questionGroupItem"

\* the places (step, position) at which the steps hold the item
PlacesOf(item) ==
    {sk \in (1..Len(steps)) \X (1..MaxItems + 1) :
        sk[2] <= Len(steps[sk[1]]) /\ steps[sk[1]][sk[2]] = item}

\* where the schema holds the item
SchemaPlace(item) == CHOOSE i \in 1..Len(form.items) : form.items[i] = item

\* gift sections stand alone, question items that are no section header
\* stand in exactly one step, and the steps hold items of the schema in
\* the order of the schema
StepsSplitTheSchema ==
    /\ \A i \in 1..Len(form.items) :
          isGiftSection(form.items[i])
              => \E s \in 1..Len(steps) : steps[s] = <<form.items[i]>>
    /\ \A i \in 1..Len(form.items) :
          (CarriesQuestion(form.items[i]) /\ ~isSection(form.items[i].title))
              => Cardinality(PlacesOf(form.items[i])) = 1
    /\ \A s \in 1..Len(steps) : \A k \in 1..Len(steps[s]) :
          \E i \in 1..Len(form.items) : form.items[i] = steps[s][k]
    /\ \A s, t \in 1..Len(steps) :
          \A k \in 1..Len(steps[s]) : \A m \in 1..Len(steps[t]) :
              (s < t \/ (s = t /\ k < m))
                  => SchemaPlace(steps[s][k]) < SchemaPlace(steps[t][m])
    /\ Len(steps) >= 1
    /\ StepsFold(form.items, 1, <<>>, <<>>) = <<>> => steps = <<form.items>>

\* C30 as stated: the steps split the schema, and no step is empty.
StepSplitting ==
    /\ StepsSplitTheSchema
    /\ \A s \in 1..Len(steps) : steps[s] # <<>>

\* C30: the steps split the schema, and no step is empty unless the form
\* has no item at all, when its one step is empty.
StepSplittingOfItems ==
    /\ StepsSplitTheSchema
    /\ form.items # <<>> => \A s \in 1..Len(steps) : steps[s] # <<>>
    /\ form.items = <<>> => steps = << <<>> >>

\* a form of a question, a section header, a second question and a gift
\* section is split into three steps, the header opening the second
SplitAtHeaderAndGift ==
    /\ lastEvent = "AppendItem"
    /\ Len(form.items) = 4
    /\ Len(steps) = 3
    /\ Len(steps[1]) = 1
    /\ Len(steps[2]) = 2 /\ isSection(steps[2][1].title)
    /\ CarriesQuestion(steps[2][2])
    /\ isGiftSection(steps[3][1])

=============================================================================
